---------------------------- MODULE Spec2Model ----------------------------
(***************************************************************************)
(* Model of the battery-offloading simulator (package battery_offloading): *)
(* the dispatch policy, the battery ledger, the SimPy resource stations,   *)
(* the network links, the dispatcher and the two drivers of Runner.        *)
(*                                                                         *)
(* Numbers.  Python floats are modelled by integers in fixed units:        *)
(*   - energy in units of which the battery of a run holds 1000;           *)
(*   - a state of charge in tenths of a percent (SocScale units per        *)
(*     percent), so 30.0 % is 300 and the depletion threshold 0.1 % is 1;  *)
(*   - simulated time in milliseconds; the configuration values are        *)
(*     chosen so that every division of the code is exact.                 *)
(***************************************************************************)
EXTENDS Integers, Sequences, FiniteSets, TLC

VARIABLES pol, bat, run, run2, tsk, link, stn

vars == <<pol, bat, run, run2, tsk, link, stn>>

Max(a, b) == IF a >= b THEN a ELSE b

\* F applied to the value of v: v is computed once, as the value of a local
\* variable of the code is, however often F reads it.
WithValue(v, F(_)) == CHOOSE y \in { F(x) : x \in {v} } : TRUE

\* Optional[int]: None is the empty sequence, a value v is <<v>>.
None == <<>>
Some(v) == <<v>>

ValueError == "ValueError"

(***************************************************************************)
(* enums.py, task.py                                                       *)
(***************************************************************************)
Sites == {"LOCAL", "EDGE", "CLOUD"}
TaskTypes == {"NAV", "SLAM", "GENERIC"}

\* TaskType.is_special / policy.is_special
is_special(task) == task.type \in {"NAV", "SLAM"}

(***************************************************************************)
(* policy.py                                                               *)
(***************************************************************************)
SocScale == 10
BATT_THRESH == 30

\* A mutant: the threshold rule is tried before the special-task rule.
decide_site_threshold_first(task, soc) ==
    IF ~(0 <= soc /\ soc <= 100 * SocScale) THEN ValueError
    ELSE IF soc <= BATT_THRESH * SocScale THEN "CLOUD"
    ELSE IF is_special(task) THEN "LOCAL"
    ELSE IF task.edge_affinity THEN "EDGE" ELSE "LOCAL"

\* A mutant: the boundary value 30.0 falls on the high-battery side.
decide_site_strict_threshold(task, soc) ==
    IF ~(0 <= soc /\ soc <= 100 * SocScale) THEN ValueError
    ELSE IF is_special(task) THEN "LOCAL"
    ELSE IF soc < BATT_THRESH * SocScale THEN "CLOUD"
    ELSE IF task.edge_affinity THEN "EDGE" ELSE "LOCAL"

\* A mutant: affinity is ignored above the threshold.
decide_site_no_affinity(task, soc) ==
    IF ~(0 <= soc /\ soc <= 100 * SocScale) THEN ValueError
    ELSE IF is_special(task) THEN "LOCAL"
    ELSE IF soc <= BATT_THRESH * SocScale THEN "CLOUD"
    ELSE "LOCAL"

\* A mutant: special tasks return before the range check.
decide_site_special_unchecked(task, soc) ==
    IF is_special(task) THEN "LOCAL"
    ELSE IF ~(0 <= soc /\ soc <= 100 * SocScale) THEN ValueError
    ELSE IF soc <= BATT_THRESH * SocScale THEN "CLOUD"
    ELSE IF task.edge_affinity THEN "EDGE" ELSE "LOCAL"

\* decide_site(task, soc): a site, or ValueError when the call raises.
decide_site(task, soc) ==
    IF ~(0 <= soc /\ soc <= 100 * SocScale) THEN ValueError
    ELSE IF is_special(task) THEN "LOCAL"
    ELSE IF task.type = "GENERIC"
         THEN IF soc <= BATT_THRESH * SocScale THEN "CLOUD"
              ELSE IF task.edge_affinity THEN "EDGE" ELSE "LOCAL"
    ELSE ValueError

(***************************************************************************)
(* battery.py                                                              *)
(*                                                                         *)
(* A battery is a record of the object's fields.  The timestamp of a       *)
(* history entry is the wall clock (time.time()) whenever the caller       *)
(* passes none, as the dispatcher does; it is read by nothing and is left  *)
(* out of the entries.                                                     *)
(***************************************************************************)
\* Battery.__init__ (valid arguments)
Battery(capacity_wh, initial_soc) ==
    [ capacity_wh |-> capacity_wh,
      current_energy_wh |-> (capacity_wh * initial_soc) \div (100 * SocScale),
      consumption_history |-> <<>>,
      total_consumed_wh |-> 0 ]

\* Battery.get_soc
get_soc(b) == (b.current_energy_wh * 100 * SocScale) \div b.capacity_wh

\* A mutant: the remaining energy is not clamped at 0.
consume_energy_wh_unclamped(b, energy_wh, purpose, task_id) ==
    IF energy_wh < 0 THEN [raised |-> TRUE, b |-> b]
    ELSE [ raised |-> FALSE,
           b |-> [ b EXCEPT
                   !.current_energy_wh = @ - energy_wh,
                   !.total_consumed_wh = @ + energy_wh,
                   !.consumption_history =
                       Append(@, [energy_wh |-> energy_wh, purpose |-> purpose,
                                  task_id |-> task_id]) ] ]

\* A mutant: a request for more than what is left is refused, the energy
\* stays as it was.
consume_energy_wh_refuses_excess(b, energy_wh, purpose, task_id) ==
    IF energy_wh < 0 \/ energy_wh > b.current_energy_wh
    THEN [raised |-> TRUE, b |-> b]
    ELSE [ raised |-> FALSE,
           b |-> [ b EXCEPT
                   !.current_energy_wh = @ - energy_wh,
                   !.total_consumed_wh = @ + energy_wh,
                   !.consumption_history =
                       Append(@, [energy_wh |-> energy_wh, purpose |-> purpose,
                                  task_id |-> task_id]) ] ]

\* A mutant: the amount is added to the remaining energy (a sign error).
consume_energy_wh_recharges(b, energy_wh, purpose, task_id) ==
    IF energy_wh < 0 THEN [raised |-> TRUE, b |-> b]
    ELSE [ raised |-> FALSE,
           b |-> [ b EXCEPT
                   !.current_energy_wh = Max(0, @ + energy_wh),
                   !.total_consumed_wh = @ + energy_wh,
                   !.consumption_history =
                       Append(@, [energy_wh |-> energy_wh, purpose |-> purpose,
                                  task_id |-> task_id]) ] ]

\* A mutant: the total counts what was actually taken out of the battery.
consume_energy_wh_counts_actual(b, energy_wh, purpose, task_id) ==
    IF energy_wh < 0 THEN [raised |-> TRUE, b |-> b]
    ELSE [ raised |-> FALSE,
           b |-> [ b EXCEPT
                   !.current_energy_wh = Max(0, @ - energy_wh),
                   !.total_consumed_wh =
                       @ + (b.current_energy_wh - Max(0, b.current_energy_wh - energy_wh)),
                   !.consumption_history =
                       Append(@, [energy_wh |-> energy_wh, purpose |-> purpose,
                                  task_id |-> task_id]) ] ]

\* A mutant: the sign of the amount is not checked.
consume_energy_wh_unchecked(b, energy_wh, purpose, task_id) ==
    [ raised |-> FALSE,
      b |-> [ b EXCEPT
              !.current_energy_wh = Max(0, @ - energy_wh),
              !.total_consumed_wh = @ + energy_wh,
              !.consumption_history =
                  Append(@, [energy_wh |-> energy_wh, purpose |-> purpose,
                             task_id |-> task_id]) ] ]

\* A mutant: a call with amount 0 returns at once and leaves no entry.
consume_energy_wh_skips_zero(b, energy_wh, purpose, task_id) ==
    IF energy_wh < 0 THEN [raised |-> TRUE, b |-> b]
    ELSE IF energy_wh = 0 THEN [raised |-> FALSE, b |-> b]
    ELSE [ raised |-> FALSE,
           b |-> [ b EXCEPT
                   !.current_energy_wh = Max(0, @ - energy_wh),
                   !.total_consumed_wh = @ + energy_wh,
                   !.consumption_history =
                       Append(@, [energy_wh |-> energy_wh, purpose |-> purpose,
                                  task_id |-> task_id]) ] ]

\* Battery.consume_energy_wh: the battery after the call, and whether it raised.
consume_energy_wh(b, energy_wh, purpose, task_id) ==
    IF energy_wh < 0 THEN [raised |-> TRUE, b |-> b]
    ELSE [ raised |-> FALSE,
           b |-> [ b EXCEPT
                   !.current_energy_wh = Max(0, @ - energy_wh),
                   !.total_consumed_wh = @ + energy_wh,
                   !.consumption_history =
                       Append(@, [energy_wh |-> energy_wh, purpose |-> purpose,
                                  task_id |-> task_id]) ] ]

\* Battery.get_remaining_energy_wh
get_remaining_energy_wh(b) == b.current_energy_wh

\* Battery.get_total_consumed_wh
get_total_consumed_wh(b) == b.total_consumed_wh

\* Battery.get_consumption_history
get_consumption_history(b) == b.consumption_history

\* Battery.set_soc
set_soc(b, soc_percent) ==
    IF ~(0 <= soc_percent /\ soc_percent <= 100 * SocScale)
    THEN [raised |-> TRUE, b |-> b]
    ELSE [ raised |-> FALSE,
           b |-> [ b EXCEPT !.current_energy_wh =
                       (b.capacity_wh * soc_percent) \div (100 * SocScale) ] ]

\* A mutant: the history and the total are cleared before the soc is checked.
reset_clears_first(b, soc_percent) ==
    LET b1 == [b EXCEPT !.consumption_history = <<>>, !.total_consumed_wh = 0]
    IN set_soc(b1, soc_percent)

\* A mutant: the total is not set back.
reset_keeps_total(b, soc_percent) ==
    LET s == set_soc(b, soc_percent) IN
    IF s.raised THEN s
    ELSE [raised |-> FALSE, b |-> [s.b EXCEPT !.consumption_history = <<>>]]

\* Battery.reset
reset(b, soc_percent) ==
    LET s == set_soc(b, soc_percent) IN
    IF s.raised THEN s
    ELSE [ raised |-> FALSE,
           b |-> [ s.b EXCEPT !.consumption_history = <<>>,
                              !.total_consumed_wh = 0 ] ]


(***************************************************************************)
(* Units of the simulation.  Seconds are counted in 1/TimeScale s          *)
(* (milliseconds), so a time in ms is seconds * 1000 \div TimeScale.       *)
(* Energy is counted in units of EnergyUnit mW*ms; the battery of a run    *)
(* holds capacity_wh = 1000 units, so one unit is 0.1 % of charge.         *)
(***************************************************************************)
TimeScale == 1000
EnergyUnit == 40000

(***************************************************************************)
(* sim/network.py                                                          *)
(***************************************************************************)
\* Network.__init__ (valid arguments)
Network(bw_up_mbps, bw_down_mbps, rtt_ms, jitter_ms) ==
    [ bw_up_mbps |-> bw_up_mbps, bw_down_mbps |-> bw_down_mbps,
      rtt_ms |-> rtt_ms, jitter_ms |-> jitter_ms,
      uplink_bytes_per_sec |-> bw_up_mbps * 125000,
      downlink_bytes_per_sec |-> bw_down_mbps * 125000 ]

\* A mutant: the upload is timed with the downlink bandwidth.
uplink_time_by_downlink_bandwidth(net, bytes_size) ==
    IF bytes_size < 0 THEN [raised |-> TRUE, pure_transmission_time |-> 0,
                            latency_overhead |-> 0, total_time |-> 0]
    ELSE LET pure_time == (bytes_size * TimeScale) \div net.downlink_bytes_per_sec
             latency_overhead ==
                 ((net.rtt_ms \div 2 + net.jitter_ms) * TimeScale) \div 1000
         IN [ raised |-> FALSE, pure_transmission_time |-> pure_time,
              latency_overhead |-> latency_overhead,
              total_time |-> pure_time + latency_overhead ]

\* Network.uplink_time: a TransmissionResult in 1/TimeScale s, or ValueError.
uplink_time(net, bytes_size) ==
    IF bytes_size < 0 THEN [raised |-> TRUE, pure_transmission_time |-> 0,
                            latency_overhead |-> 0, total_time |-> 0]
    ELSE LET pure_time == (bytes_size * TimeScale) \div net.uplink_bytes_per_sec
             latency_overhead ==
                 ((net.rtt_ms \div 2 + net.jitter_ms) * TimeScale) \div 1000
         IN [ raised |-> FALSE, pure_transmission_time |-> pure_time,
              latency_overhead |-> latency_overhead,
              total_time |-> pure_time + latency_overhead ]

\* Network.downlink_time
downlink_time(net, bytes_size) ==
    IF bytes_size < 0 THEN [raised |-> TRUE, pure_transmission_time |-> 0,
                            latency_overhead |-> 0, total_time |-> 0]
    ELSE LET pure_time == (bytes_size * TimeScale) \div net.downlink_bytes_per_sec
             latency_overhead ==
                 ((net.rtt_ms \div 2 + net.jitter_ms) * TimeScale) \div 1000
         IN [ raised |-> FALSE, pure_transmission_time |-> pure_time,
              latency_overhead |-> latency_overhead,
              total_time |-> pure_time + latency_overhead ]

(***************************************************************************)
(* energy.py                                                               *)
(***************************************************************************)
\* PowerParameters: the dispatcher's defaults (mW).
power_params == [active_local_mw |-> 2000, tx_mw |-> 800, rx_mw |-> 400,
                 idle_mw |-> 100]

\* estimate_robot_energy, in energy units: (mW / 1000) * (s / 3600) Wh is
\* mW * (time in 1/TimeScale s) mW*ms.
estimate_robot_energy(execution_site, params, local_compute_time_s, comm_times) ==
    IF execution_site = "LOCAL"
    THEN (params.active_local_mw * local_compute_time_s) \div EnergyUnit
    ELSE (params.tx_mw * comm_times.uplink_s
          + params.rx_mw * comm_times.downlink_s) \div EnergyUnit

(***************************************************************************)
(* The configuration of a run (config.py, Runner.__init__)                 *)
(***************************************************************************)
\* ServiceConfig.processing_rate_ops_per_sec of the three tiers.
service_rate == [LOCAL |-> 1000, EDGE |-> 2000, CLOUD |-> 4000]

\* create_networks_from_config: symmetric links, rtt = 2 * latency, no jitter.
networks == [ EDGE |-> Network(1, 1, 2 * 60, 0),
              CLOUD |-> Network(1, 1, 2 * 160, 0) ]

\* Runner(battery_capacity_wh=...), in energy units.
battery_capacity_wh == 1000

\* Runner(initial_soc=...): the initial states of charge tried.
InitialSocs == {100 * SocScale, 45 * SocScale, 201, 15 * SocScale}

\* run_with_arrival_process(simulation_time_s=...), in 1/TimeScale s.
simulation_time_s == 9000

(***************************************************************************)
(* task.py: Task and TaskGenerator                                         *)
(***************************************************************************)
MaxTasks == 3

\* Task(...) with __post_init__: the flags follow from the type.
Task(id, type, size_bytes, compute_demand, created_at, deadline_ms) ==
    [ id |-> id, type |-> type, size_bytes |-> size_bytes,
      compute_demand |-> compute_demand, created_at |-> created_at,
      deadline_ms |-> deadline_ms,
      can_offload |-> ~(type \in {"NAV", "SLAM"}),
      edge_affinity |-> FALSE ]

\* A mutant: the affinity is set whatever the type of the task.
set_edge_affinity_unchecked(task, affinity) ==
    [raised |-> FALSE, task |-> [task EXCEPT !.edge_affinity = affinity]]

\* Task.set_edge_affinity
set_edge_affinity(task, affinity) ==
    IF is_special(task) THEN [raised |-> TRUE, task |-> task]
    ELSE [raised |-> FALSE, task |-> [task EXCEPT !.edge_affinity = affinity]]

\* Task.absolute_deadline, in ms of simulated time: None without a deadline.
absolute_deadline(task) ==
    IF task.deadline_ms = None THEN None
    ELSE Some(task.created_at + task.deadline_ms[1])

\* Task.is_expired
is_expired(task, current_time) ==
    IF task.deadline_ms = None THEN FALSE
    ELSE current_time > absolute_deadline(task)[1]

\* What the generator's random.Random(seed) yields for one task and for the
\* wait after it: the values of the draws of _next_task_type,
\* _generate_task_properties, the affinity draw (GENERIC only) and the
\* inter-arrival draw (arrival-process mode only).  The special type drawn
\* in a run is NAV: a SLAM task takes the same path (is_special).
TaskDraws(mode) ==
    { d \in [ type : {"NAV", "GENERIC"}, size_bytes : {250000}, compute_demand : {4000},
              deadline_ms : {None, Some(4000)}, affinity : BOOLEAN,
              inter_arrival : IF mode = "arrival" THEN {1000, 5000} ELSE {0} ] :
      d.type = "GENERIC" \/ ~d.affinity }

\* TaskGenerator.__init__: a generator is its counter and the values its
\* seeded random stream yields; stream[k] is revealed when task k is drawn.
TaskGenerator(mode, stream) == [mode |-> mode, task_counter |-> 0, stream |-> stream]

\* A mutant: the affinity draw comes from an unseeded source, whatever the
\* stream holds.
Draws_affinity_unseeded(gen) ==
    LET ds == IF gen.task_counter < Len(gen.stream)
              THEN {gen.stream[gen.task_counter + 1]}
              ELSE TaskDraws(gen.mode)
    IN UNION { { [d EXCEPT !.affinity = a] :
                 a \in IF d.type = "GENERIC" THEN BOOLEAN ELSE {FALSE} } :
               d \in ds }

\* random.Random(seed): the next draws are those of the seeded stream.
Draws(gen) ==
    IF gen.task_counter < Len(gen.stream)
    THEN {gen.stream[gen.task_counter + 1]}
    ELSE TaskDraws(gen.mode)

\* TaskGenerator.generate_task with the draws d: the generator and the task.
generate_task(gen, current_time, d) ==
    LET id == gen.task_counter + 1
        t == Task(id, d.type, d.size_bytes, d.compute_demand, current_time,
                  d.deadline_ms)
    IN [ gen |-> [ gen EXCEPT !.task_counter = id,
                              !.stream = IF id <= Len(@) THEN @ ELSE Append(@, d) ],
         task |-> IF t.type = "GENERIC"
                  THEN set_edge_affinity(t, d.affinity).task ELSE t ]

\* The inter-arrival time the runner asks the generator for.
generate_inter_arrival_time(gen) == gen.stream[gen.task_counter].inter_arrival


(***************************************************************************)
(* SimPy, as the program uses it.  The environment keeps its events        *)
(* ordered by (time, priority, insertion order): queue is that order.      *)
(* A process start (Initialize) and the stop event of run(until=...) are   *)
(* URGENT, everything else is NORMAL.  The event a finished process        *)
(* leaves behind has no callback here (nothing waits for a process) and    *)
(* is not kept.                                                            *)
(***************************************************************************)
URGENT == 0
NORMAL == 1

Ev(time, prio, kind, k, site) ==
    [time |-> time, prio |-> prio, kind |-> kind, k |-> k, site |-> site]

\* Environment.schedule: after every event that is not later.
Schedule(queue, ev) ==
    LET n == Cardinality({ i \in 1..Len(queue) :
                 queue[i].time < ev.time
                 \/ (queue[i].time = ev.time /\ queue[i].prio <= ev.prio) })
    IN SubSeq(queue, 1, n) \o <<ev>> \o SubSeq(queue, n + 1, Len(queue))

(***************************************************************************)
(* sim/resources.py                                                        *)
(***************************************************************************)
\* ResourceStation.__init__ (valid arguments).  users and put_queue are the
\* simpy.Resource; calls is the order in which tasks called process().
ResourceStation(name, rate, capacity) ==
    [ name |-> name, service_rate |-> rate, capacity |-> capacity,
      users |-> <<>>, put_queue |-> <<>>, calls |-> <<>>,
      processing_history |-> <<>>, total_tasks_processed |-> 0,
      total_service_time |-> 0, total_queue_time |-> 0 ]

\* A mutant: the service rate is not checked.
ResourceStation_init_rate_unchecked(name, rate, capacity) ==
    IF capacity < 1 THEN [raised |-> TRUE, station |-> None]
    ELSE [raised |-> FALSE, station |-> Some(ResourceStation(name, rate, capacity))]

\* ResourceStation.__init__ with its checks (lines 101-105): whether it
\* raised, and the station if there is one.
ResourceStation_init(name, rate, capacity) ==
    IF rate <= 0 THEN [raised |-> TRUE, station |-> None]
    ELSE IF capacity < 1 THEN [raised |-> TRUE, station |-> None]
    ELSE [raised |-> FALSE, station |-> Some(ResourceStation(name, rate, capacity))]

\* ResourceStation.calculate_service_time, in 1/TimeScale s.
calculate_service_time(station, task) ==
    (task.compute_demand * TimeScale) \div station.service_rate

\* A mutant: the newest waiting request is served first.
trigger_put_lifo(st, site) ==
    LET s == st.stations[site] IN
    IF s.put_queue # <<>> /\ Len(s.users) < s.capacity
    THEN LET k == s.put_queue[Len(s.put_queue)] IN
         [ st EXCEPT
           !.stations[site].users = Append(@, k),
           !.stations[site].put_queue = SubSeq(@, 1, Len(@) - 1),
           !.queue = Schedule(@, Ev(st.now, NORMAL, "granted", k, site)) ]
    ELSE st

\* simpy Resource._trigger_put / _do_put: the oldest waiting request gets a
\* free slot, and its event is scheduled for now.
trigger_put(st, site) ==
    LET s == st.stations[site] IN
    IF s.put_queue # <<>> /\ Len(s.users) < s.capacity
    THEN LET k == Head(s.put_queue) IN
         [ st EXCEPT
           !.stations[site].users = Append(@, k),
           !.stations[site].put_queue = Tail(@),
           !.queue = Schedule(@, Ev(st.now, NORMAL, "granted", k, site)) ]
    ELSE st

\* A mutant: the request is made but not waited for; the service starts
\* at once.
process_request_no_yield(st, k, site) ==
    LET task == st.frames[k].task
        service_time == calculate_service_time(st.stations[site], task)
    IN [ st EXCEPT
         !.frames[k].pc = "service",
         !.frames[k].arrival_time = st.now,
         !.frames[k].service_time = service_time,
         !.frames[k].svc_start = st.now,
         !.stations[site].calls =
             Append(@, [task_id |-> task.id, arrival_time |-> st.now,
                        service_time |-> service_time]),
         !.queue = Schedule(@, Ev(st.now + service_time, NORMAL, "timeout", k,
                                  site)) ]

\* ResourceStation.process up to `yield req` (lines 172-177).  The division
\* of calculate_service_time raises ZeroDivisionError for a rate of 0.
process_request(st, k, site) ==
    LET task == st.frames[k].task
        s == st.stations[site]
        service_time == calculate_service_time(s, task)
        st1 == [ st EXCEPT
                 !.frames[k].pc = "wait_req",
                 !.frames[k].arrival_time = st.now,
                 !.frames[k].service_time = service_time,
                 !.stations[site].calls =
                     Append(@, [task_id |-> task.id, arrival_time |-> st.now,
                                service_time |-> service_time]),
                 !.stations[site].put_queue = Append(@, k) ]
    IN IF s.service_rate = 0 THEN [st EXCEPT !.status = "raised"]
       ELSE trigger_put(st1, site)

\* ResourceStation.process from the granted request to the service timeout
\* (lines 179-184).  env.timeout raises ValueError for a negative delay.
process_start(st, k) ==
    LET f == st.frames[k] IN
    IF f.service_time < 0 THEN [st EXCEPT !.status = "raised"]
    ELSE [ st EXCEPT
           !.frames[k].pc = "service",
           !.frames[k].svc_start = st.now,
           !.queue = Schedule(@, Ev(st.now + f.service_time, NORMAL, "timeout", k,
                                    f.execution_site)) ]

\* ResourceStation.process after the service timeout (lines 186-202), and
\* the exit of the with block: the slot is freed at once, and the Release
\* event, whose callback admits the next request, is scheduled for now.
process_finish(st, k) ==
    LET f == st.frames[k]
        site == f.execution_site
    IN [ st EXCEPT
         !.frames[k].finish_time = st.now,
         !.stations[site].processing_history =
             Append(@, [ task_id |-> f.task.id, start_time |-> f.svc_start,
                         service_time |-> f.service_time, finish_time |-> st.now,
                         queue_wait_time |-> f.svc_start - f.arrival_time ]),
         !.stations[site].total_tasks_processed = @ + 1,
         !.stations[site].total_service_time = @ + f.service_time,
         !.stations[site].total_queue_time = @ + (f.svc_start - f.arrival_time),
         !.stations[site].users = SelectSeq(@, LAMBDA u : u # k),
         !.queue = Schedule(@, Ev(st.now, NORMAL, "release", 0, site)) ]

(***************************************************************************)
(* sim/dispatcher.py                                                       *)
(*                                                                         *)
(* A run st holds the environment (now, queue), the battery, the stations, *)
(* the generator, and one frame per task: the locals of the task's         *)
(* dispatch() generator and the place (pc) where it is suspended.          *)
(***************************************************************************)
\* Seconds to milliseconds ("* 1000.0").
Ms(seconds) == (seconds * 1000) \div TimeScale

SiteName == [LOCAL |-> "local", EDGE |-> "edge", CLOUD |-> "cloud"]

Frame(task) ==
    [ pc |-> "new", task |-> task, soc_before |-> 0, start_time |-> 0,
      execution_site |-> "LOCAL", up_total |-> 0, arrival_time |-> 0,
      service_time |-> 0, svc_start |-> 0, finish_time |-> 0,
      down_total |-> 0, consumed_at |-> 0 ]

\* A mutant: a link carries one upload at a time; an upload starts when the
\* uploads in flight on the link are over.
dispatch_begin_shared_link(st, k, now_soc) ==
    LET task == st.frames[k].task
        site == decide_site(task, now_soc)
        st1 == [ st EXCEPT !.frames[k].soc_before = now_soc,
                           !.frames[k].start_time = st.now,
                           !.frames[k].execution_site = site ]
        in_flight == { j \in 1..Len(st.frames) :
                         st.frames[j].pc = "uplink" /\ st.frames[j].execution_site = site }
        busy == { st.queue[n].time : n \in { m \in 1..Len(st.queue) :
                                                st.queue[m].k \in in_flight } }
        free_at == IF in_flight = {} THEN st.now
                   ELSE CHOOSE t \in busy : \A u \in busy : u <= t
    IN IF site = ValueError THEN [st EXCEPT !.status = "raised"]
       ELSE IF site = "LOCAL" THEN process_request(st1, k, "LOCAL")
       ELSE LET up == uplink_time(networks[site], task.size_bytes) IN
            [ st1 EXCEPT
              !.frames[k].pc = "uplink",
              !.frames[k].up_total = up.total_time,
              !.queue = Schedule(@, Ev(free_at + up.total_time, NORMAL,
                                       "timeout", k, site)) ]

\* A mutant: the battery is debited when the task is dispatched, before any
\* of its waits, and again when it completes.
dispatch_begin_debits_at_dispatch(st, k, now_soc) ==
    LET task == st.frames[k].task
        site == decide_site(task, now_soc)
        c == consume_energy_wh(st.battery, 1, <<"task", task.id, SiteName[site]>>, None)
        st1 == [ st EXCEPT !.frames[k].soc_before = now_soc,
                           !.frames[k].start_time = st.now,
                           !.frames[k].execution_site = site,
                           !.battery = c.b ]
    IN IF site = ValueError THEN [st EXCEPT !.status = "raised"]
       ELSE IF site = "LOCAL"
       THEN WithValue(st1, LAMBDA st2 : process_request(st2, k, "LOCAL"))
       ELSE LET up == uplink_time(networks[site], task.size_bytes) IN
            [ st1 EXCEPT
              !.frames[k].pc = "uplink",
              !.frames[k].up_total = up.total_time,
              !.queue = Schedule(@, Ev(st.now + up.total_time, NORMAL,
                                       "timeout", k, site)) ]

\* A mutant: a remote task joins the queue of its station when it is
\* dispatched, before its upload.
dispatch_begin_joins_at_dispatch(st, k, now_soc) ==
    LET task == st.frames[k].task
        site == decide_site(task, now_soc)
        st1 == [ st EXCEPT !.frames[k].soc_before = now_soc,
                           !.frames[k].start_time = st.now,
                           !.frames[k].execution_site = site ]
    IN IF site = ValueError THEN [st EXCEPT !.status = "raised"]
       ELSE IF site = "LOCAL"
       THEN WithValue(st1, LAMBDA st2 : process_request(st2, k, "LOCAL"))
       ELSE LET up == uplink_time(networks[site], task.size_bytes) IN
            process_request([st1 EXCEPT !.frames[k].up_total = up.total_time], k, site)

\* A mutant: the dispatch is counted before the site is decided.
dispatch_begin_counts_first(st, k, now_soc) ==
    LET task == st.frames[k].task
        site == decide_site(task, now_soc)
        st1 == [ st EXCEPT !.frames[k].soc_before = now_soc,
                           !.frames[k].start_time = st.now,
                           !.frames[k].execution_site = site ]
    IN IF site = ValueError
       THEN [st EXCEPT !.status = "raised", !.total_dispatched = @ + 1]
       ELSE IF site = "LOCAL"
       THEN WithValue(st1, LAMBDA st2 : process_request(st2, k, "LOCAL"))
       ELSE LET up == uplink_time(networks[site], task.size_bytes) IN
            [ st1 EXCEPT
              !.frames[k].pc = "uplink",
              !.frames[k].up_total = up.total_time,
              !.queue = Schedule(@, Ev(st.now + up.total_time, NORMAL,
                                       "timeout", k, site)) ]

\* dispatch from its start to the first yield: lines 120-141, then
\* _execute_local up to the station's `yield req`, or _execute_remote up to
\* the upload timeout (lines 221-229).
dispatch_begin(st, k, now_soc) ==
    LET task == st.frames[k].task
        site == decide_site(task, now_soc)
        st1 == [ st EXCEPT !.frames[k].soc_before = now_soc,
                           !.frames[k].start_time = st.now,
                           !.frames[k].execution_site = site ]
    IN IF site = ValueError THEN [st EXCEPT !.status = "raised"]
       ELSE IF site = "LOCAL"
       THEN WithValue(st1, LAMBDA st2 : process_request(st2, k, "LOCAL"))
       ELSE LET up == uplink_time(networks[site], task.size_bytes) IN
            [ st1 EXCEPT
              !.frames[k].pc = "uplink",
              !.frames[k].up_total = up.total_time,
              !.queue = Schedule(@, Ev(st.now + up.total_time, NORMAL,
                                       "timeout", k, site)) ]

\* A mutant: the station is chosen again, from the soc of the moment, when
\* the upload is over.
remote_station_redecided(st, k) ==
    LET s == decide_site(st.frames[k].task, get_soc(st.battery)) IN
    IF s \in {"EDGE", "CLOUD"} THEN s ELSE st.frames[k].execution_site

\* _execute_remote, line 222: the station of the site decided at dispatch.
remote_station(st, k) == st.frames[k].execution_site

\* _execute_remote after the upload: lines 231-233, into the station.
execute_remote_arrive(st, k) ==
    LET site == remote_station(st, k) IN
    process_request([st EXCEPT !.frames[k].execution_site = site], k, site)

\* A mutant: a latency equal to the deadline counts as a miss.
missed_deadline_inclusive(task, latency_ms) ==
    IF task.deadline_ms # None THEN latency_ms >= task.deadline_ms[1] ELSE FALSE

\* dispatch, lines 168-172: the deadline check of the record.
missed_deadline(task, latency_ms) ==
    IF task.deadline_ms # None THEN latency_ms > task.deadline_ms[1] ELSE FALSE

\* A mutant: the debit is taken from the energy the battery had when the
\* task was dispatched, and written back (a lost update).
dispatch_finish_lost_update(st, k, latency_ms, energy_wh, net_up_ms, net_down_ms, comp_ms, queue_ms) ==
    LET f == st.frames[k]
        stale == [ st.battery EXCEPT
                   !.current_energy_wh =
                       (f.soc_before * st.battery.capacity_wh) \div (100 * SocScale) ]
        c == consume_energy_wh(stale, energy_wh,
                               <<"task", f.task.id, SiteName[f.execution_site]>>, None)
    IN [ st |-> [ st EXCEPT
                  !.battery = c.b,
                  !.frames[k].pc = "done",
                  !.frames[k].consumed_at = st.now,
                  !.total_dispatched = @ + 1,
                  !.site_counts[f.execution_site] = @ + 1 ],
         record |-> [ task_id |-> f.task.id, task_type |-> f.task.type,
                      execution_site |-> SiteName[f.execution_site],
                      soc_before |-> f.soc_before, dispatch_time |-> f.start_time,
                      task_size_bytes |-> f.task.size_bytes,
                      compute_demand |-> f.task.compute_demand,
                      deadline_ms |-> -1,
                      network_up_ms |-> net_up_ms, network_down_ms |-> net_down_ms,
                      compute_time_ms |-> comp_ms, queue_wait_ms |-> queue_ms,
                      latency_ms |-> latency_ms, energy_wh_delta |-> energy_wh,
                      soc_after |-> get_soc(c.b),
                      finish_time |-> st.now + (latency_ms * TimeScale) \div 1000,
                      missed_deadline |-> FALSE ] ]

\* dispatch, lines 157-177: the debit, the record, the counters.  Returns
\* the run and the record.
dispatch_finish(st, k, latency_ms, energy_wh, net_up_ms, net_down_ms, comp_ms, queue_ms) ==
    LET f == st.frames[k]
        task == f.task
        site == f.execution_site
        c == consume_energy_wh(st.battery, energy_wh,
                               <<"task", task.id, SiteName[site]>>, None)
        record ==
          [ task_id |-> task.id, task_type |-> task.type,
            execution_site |-> SiteName[site], soc_before |-> f.soc_before,
            dispatch_time |-> f.start_time, task_size_bytes |-> task.size_bytes,
            compute_demand |-> task.compute_demand,
            deadline_ms |-> IF task.deadline_ms # None THEN task.deadline_ms[1]
                            ELSE -1,
            network_up_ms |-> net_up_ms, network_down_ms |-> net_down_ms,
            compute_time_ms |-> comp_ms, queue_wait_ms |-> queue_ms,
            latency_ms |-> latency_ms, energy_wh_delta |-> energy_wh,
            soc_after |-> get_soc(c.b),
            finish_time |-> st.now + (latency_ms * TimeScale) \div 1000,
            missed_deadline |-> missed_deadline(task, latency_ms) ]
    IN [ st |-> [ st EXCEPT
                  !.status = IF c.raised THEN "raised" ELSE @,
                  !.battery = c.b,
                  !.frames[k].pc = "done",
                  !.frames[k].consumed_at = st.now,
                  !.total_dispatched = @ + 1,
                  !.site_counts[site] = @ + 1 ],
         record |-> record ]

\* A mutant: the local energy is that of the whole latency, the wait in the
\* local queue included.
execute_local_finish_energy_of_latency(st, k) ==
    LET f == st.frames[k]
        actual_latency_sec == f.finish_time - f.start_time
        latency_ms == Ms(actual_latency_sec)
        energy_wh == estimate_robot_energy("LOCAL", power_params,
                                           actual_latency_sec, None)
    IN dispatch_finish(st, k, latency_ms, energy_wh, 0, 0, latency_ms, 0)

\* _execute_local after station.process returned (lines 195-208), and the
\* rest of dispatch.
execute_local_finish(st, k) ==
    LET f == st.frames[k]
        actual_latency_sec == f.finish_time - f.start_time
        latency_ms == Ms(actual_latency_sec)
        energy_wh == estimate_robot_energy("LOCAL", power_params,
                                           f.service_time, None)
    IN dispatch_finish(st, k, latency_ms, energy_wh, 0, 0, latency_ms, 0)

\* _execute_remote, line 240: the result is 1 % of the input, 1 KB at least.
result_size(task) == Max(1024, task.size_bytes \div 100)

\* _execute_remote after station.process returned, up to the download
\* timeout (lines 234-245).
execute_remote_download(st, k) ==
    LET f == st.frames[k]
        down == downlink_time(networks[f.execution_site], result_size(f.task))
    IN [ st EXCEPT
         !.frames[k].pc = "downlink",
         !.frames[k].down_total = down.total_time,
         !.queue = Schedule(@, Ev(st.now + down.total_time, NORMAL, "timeout",
                                  k, f.execution_site)) ]

\* A mutant: the robot is also charged for the time the task spent at the
\* remote station, wait and service.
execute_remote_finish_charges_remote_time(st, k) ==
    LET f == st.frames[k]
        upload_time_ms == Ms(f.up_total)
        queue_wait_sec == f.finish_time - f.arrival_time - f.service_time
        compute_time_ms == Ms(f.service_time)
        queue_wait_ms == Max(0, Ms(queue_wait_sec))
        download_time_ms == Ms(f.down_total)
        total_latency_ms == upload_time_ms + queue_wait_ms + compute_time_ms
                            + download_time_ms
        comm_times == [ uplink_s |-> f.up_total, downlink_s |-> f.down_total,
                        total_comm_s |-> f.up_total + f.down_total ]
        energy_wh == estimate_robot_energy(f.execution_site, power_params, 0,
                                           comm_times)
                     + estimate_robot_energy("LOCAL", power_params,
                                             f.finish_time - f.arrival_time, None)
    IN dispatch_finish(st, k, total_latency_ms, energy_wh, upload_time_ms,
                       download_time_ms, compute_time_ms, queue_wait_ms)

\* _execute_remote after the download (lines 247-266), and the rest of
\* dispatch.
execute_remote_finish(st, k) ==
    LET f == st.frames[k]
        upload_time_ms == Ms(f.up_total)
        queue_wait_sec == f.finish_time - f.arrival_time - f.service_time
        compute_time_ms == Ms(f.service_time)
        queue_wait_ms == Max(0, Ms(queue_wait_sec))
        download_time_ms == Ms(f.down_total)
        total_latency_ms == upload_time_ms + queue_wait_ms + compute_time_ms
                            + download_time_ms
        comm_times == [ uplink_s |-> f.up_total, downlink_s |-> f.down_total,
                        total_comm_s |-> f.up_total + f.down_total ]
        energy_wh == estimate_robot_energy(f.execution_site, power_params, 0,
                                           comm_times)
    IN dispatch_finish(st, k, total_latency_ms, energy_wh, upload_time_ms,
                       download_time_ms, compute_time_ms, queue_wait_ms)

(***************************************************************************)
(* sim/runner.py                                                           *)
(***************************************************************************)
\* The depletion threshold 0.1 % of both drivers (lines 184 and 297).
DepletionSoc == SocScale \div 10

\* Runner.__init__: the run after construction.
Runner(mode, initial_soc, num_tasks, stream) ==
    [ mode |-> mode, status |-> "constructed", now |-> 0, queue |-> <<>>,
      initial_soc |-> initial_soc, num_tasks |-> num_tasks,
      max_time |-> simulation_time_s,
      battery |-> Battery(battery_capacity_wh, initial_soc),
      stations |-> [s \in Sites |-> ResourceStation(s, service_rate[s], 1)],
      task_generator |-> TaskGenerator(mode, stream),
      frames |-> <<>>, driver |-> "new",
      execution_records |-> <<>>,
      total_dispatched |-> 0, site_counts |-> [s \in Sites |-> 0] ]

\* Runner.run, lines 129-138: the simulation process is created and the
\* environment runs until no event is left.
run_start(st) ==
    [ st EXCEPT !.status = "running",
                !.queue = Schedule(@, Ev(st.now, URGENT, "init_driver", 0, "LOCAL")) ]

\* Runner.run_with_arrival_process, lines 251-260: the arrival process is
\* created and the environment runs until the time bound.
run_with_arrival_process_start(st) ==
    [ st EXCEPT
      !.status = "running",
      !.queue = Schedule(Schedule(@, Ev(st.now, URGENT, "init_driver", 0, "LOCAL")),
                         Ev(st.max_time, URGENT, "until", 0, "LOCAL")) ]

\* A mutant: the drivers hand every dispatch the soc the run started with.
current_soc_of_construction(st) == st.initial_soc

\* current_soc = self.battery.get_soc() (lines 189 and 322).
current_soc(st) == get_soc(st.battery)

\* A mutant: the drivers go on although the battery is depleted.
battery_depleted_never(st) == FALSE

\* The check of both drivers: get_soc() <= 0.1.
battery_depleted(st) == get_soc(st.battery) <= DepletionSoc

\* A mutant: the fixed-count driver starts the dispatch of the next task
\* without waiting for the end of the one it has just dispatched.
simulation_loop_dispatches_ahead(st, i) ==
    IF i > Len(st.frames) THEN [st EXCEPT !.driver = "done"]
    ELSE IF battery_depleted(st) THEN [st EXCEPT !.driver = "done"]
    ELSE LET s1 == IF st.frames[i].pc = "new"
                   THEN dispatch_begin(st, i, current_soc(st)) ELSE st
         IN IF i + 1 <= Len(s1.frames) /\ s1.frames[i + 1].pc = "new"
            THEN dispatch_begin(s1, i + 1, current_soc(s1))
            ELSE s1

\* _simulation_process, the loop of lines 182-198 from task i on, up to the
\* next suspension of the process.
simulation_loop(st, i) ==
    IF i > Len(st.frames) THEN [st EXCEPT !.driver = "done"]
    ELSE IF battery_depleted(st) THEN [st EXCEPT !.driver = "done"]
    ELSE dispatch_begin(st, i, current_soc(st))

\* _simulation_process, lines 173-176: the tasks are generated first.  The
\* set of what the generator may yield: one element under a seed.
RECURSIVE generate_tasks(_, _, _)
generate_tasks(gen, current_time, n) ==
    IF n = 0 THEN {[gen |-> gen, tasks |-> <<>>]}
    ELSE UNION { { [ gen |-> g.gen, tasks |-> Append(p.tasks, g.task) ] :
                   g \in { generate_task(p.gen, current_time, d) :
                           d \in Draws(p.gen) } } :
                 p \in generate_tasks(gen, current_time, n - 1) }

\* _simulation_process from its start to its first suspension.
simulation_process(st) ==
    { WithValue(
          [ st EXCEPT !.driver = "running",
                      !.task_generator = p.gen,
                      !.frames = [i \in 1..Len(p.tasks) |-> Frame(p.tasks[i])] ],
          LAMBDA st1 : simulation_loop(st1, 1)) :
      p \in generate_tasks(st.task_generator, st.now, st.num_tasks) }

\* A mutant: the fixed-count driver goes on without keeping the record.
task_completed_drops_record(st, k, record) ==
    IF st.status = "raised" THEN st
    ELSE IF st.mode = "fixed" THEN simulation_loop(st, k + 1)
    ELSE [st EXCEPT !.execution_records = Append(@, record)]

\* What follows the return of dispatch: the record is kept (lines 195 and
\* 328); the fixed-count driver goes on with the next task.
task_completed(st, k, record) ==
    LET st1 == [st EXCEPT !.execution_records = Append(@, record)] IN
    IF st.status = "raised" THEN st
    ELSE IF st.mode = "fixed"
    THEN WithValue(st1, LAMBDA st2 : simulation_loop(st2, k + 1))
    ELSE st1

\* _process_single_task from its start to its first suspension.
process_single_task(st, k) == dispatch_begin(st, k, current_soc(st))

\* _arrival_process, one turn of the loop of lines 295-310, with the
\* generator's draws d.
arrival_turn(st, d) ==
    LET g == generate_task(st.task_generator, st.now, d)
        k == Len(st.frames) + 1
        inter_arrival_time == generate_inter_arrival_time(g.gen)
    IN [ st EXCEPT
         !.driver = "running",
         !.task_generator = g.gen,
         !.frames = Append(@, Frame(g.task)),
         !.queue = Schedule(Schedule(@, Ev(st.now, URGENT, "init_task", k, "LOCAL")),
                            Ev(st.now + inter_arrival_time, NORMAL,
                               "wake_driver", 0, "LOCAL")) ]

\* _arrival_process, resumed: the loop test, the battery check, one turn.
\* The generator is asked for at most MaxTasks tasks.
arrival_process(st) ==
    IF ~(st.now < st.max_time) THEN {[st EXCEPT !.driver = "done"]}
    ELSE IF battery_depleted(st) THEN {[st EXCEPT !.driver = "done"]}
    ELSE IF st.task_generator.task_counter >= MaxTasks
         THEN {[st EXCEPT !.driver = "capped"]}
    ELSE { arrival_turn(st, d) : d \in Draws(st.task_generator) }

\* Station test, process_task: a process that calls station.process for
\* its task, at once or after a delay, and keeps what it returns.
process_task(st, k) == process_request(st, k, st.frames[k].execution_site)

process_task_result(st, k) ==
    [ st EXCEPT
      !.frames[k].pc = "done",
      !.execution_records =
          Append(@, [ task_id |-> st.frames[k].task.id,
                      finish_time |-> st.frames[k].finish_time,
                      service_time |-> st.frames[k].service_time ]) ]

\* Station test: the processes of the tasks are created in the order of the
\* tasks; the process of task k calls station.process at time delays[k].
RECURSIVE create_processes(_, _, _)
create_processes(queue, delays, k) ==
    IF k > Len(delays) THEN queue
    ELSE create_processes(
             Schedule(queue, Ev(delays[k], IF delays[k] = 0 THEN URGENT ELSE NORMAL,
                                "process_task", k, "LOCAL")),
             delays, k + 1)

\* Station test: one station of the given capacity, the tasks, env.run().
StationTest(capacity, tasks, delays) ==
    [ Runner("station", 100 * SocScale, Len(tasks), <<>>) EXCEPT
      !.status = "running",
      !.stations = [s \in Sites |-> ResourceStation(s, service_rate[s], capacity)],
      !.frames = [k \in 1..Len(tasks) |-> Frame(tasks[k])],
      !.queue = create_processes(<<>>, delays, 1) ]

\* Station test with a station of one's own: the station is constructed
\* first; if that raises, the test is over and nothing runs.
ConstructedStationTest(rate, capacity, tasks, delays) ==
    LET c == ResourceStation_init("LOCAL", rate, capacity) IN
    IF c.raised
    THEN [Runner("station", 100 * SocScale, 0, <<>>) EXCEPT !.status = "raised"]
    ELSE [StationTest(1, tasks, delays) EXCEPT !.stations["LOCAL"] = c.station[1]]

\* A task's process resumed by its timeout, by the place it waits at.
task_resumed(st, k) ==
    LET pc == st.frames[k].pc IN
    IF pc = "uplink" THEN execute_remote_arrive(st, k)
    ELSE IF pc = "service"
    THEN WithValue(process_finish(st, k), LAMBDA st1 :
           IF st.mode = "station" THEN process_task_result(st1, k)
           ELSE IF st1.frames[k].execution_site = "LOCAL"
           THEN WithValue(execute_local_finish(st1, k),
                          LAMBDA r : task_completed(r.st, k, r.record))
           ELSE execute_remote_download(st1, k))
    ELSE WithValue(execute_remote_finish(st, k),
                   LAMBDA r : task_completed(r.st, k, r.record))

\* Environment.step: the first event of the queue is taken, the clock moves
\* to its time and its callbacks run.  Environment.run ends when no event
\* is left, or at the stop event of run(until=...).
Step(st) ==
    IF st.queue = <<>> THEN {[st EXCEPT !.status = "ended"]}
    ELSE LET ev == Head(st.queue) IN
         WithValue([st EXCEPT !.now = ev.time, !.queue = Tail(@)], LAMBDA s0 :
           CASE ev.kind = "until" -> {[s0 EXCEPT !.status = "stopped"]}
             [] ev.kind = "init_driver" ->
                  IF st.mode = "fixed" THEN simulation_process(s0)
                  ELSE arrival_process(s0)
             [] ev.kind = "wake_driver" -> arrival_process(s0)
             [] ev.kind = "init_task" -> {process_single_task(s0, ev.k)}
             [] ev.kind = "process_task" -> {process_task(s0, ev.k)}
             [] ev.kind = "granted" -> {process_start(s0, ev.k)}
             [] ev.kind = "release" -> {trigger_put(s0, ev.site)}
             [] OTHER -> {task_resumed(s0, ev.k)})

(***************************************************************************)
(* Specifications.  Each drives one part of the program; the variables of  *)
(* the other parts stay at their idle value.                               *)
(***************************************************************************)
Idle == [status |-> "idle"]

(***************************************************************************)
(* SpecPolicy: calls of decide_site.                                       *)
(***************************************************************************)
\* Tasks as decide_site may be handed them: edge_affinity is a plain
\* attribute of the dataclass.
PolicyTasks ==
    { [Task(1, ty, 1024, 1000000, 0, None) EXCEPT !.edge_affinity = af] :
      ty \in TaskTypes, af \in BOOLEAN }

\* States of charge tried, in 1/SocScale percent: every 5 %, the values
\* around 0, 30 and 100, and values outside [0, 100].
SocSamples ==
    { 5 * SocScale * k : k \in -1..21 }
    \cup { -1, 1, 299, 301, 999, 1001 }

PolicyInit ==
    /\ pol = [status |-> "new", task |-> Task(1, "NAV", 1024, 1000000, 0, None),
              soc |-> 0, result |-> "none"]
    /\ bat = Idle /\ run = Idle /\ run2 = Idle
    /\ tsk = Idle /\ link = Idle /\ stn = Idle

Decide ==
    /\ \E task \in PolicyTasks, soc \in SocSamples :
          pol' = [status |-> "called", task |-> task, soc |-> soc,
                  result |-> decide_site(task, soc)]
    /\ UNCHANGED <<bat, run, run2, tsk, link, stn>>

PolicyNext == Decide

SpecPolicy == PolicyInit /\ [][PolicyNext]_vars

(***************************************************************************)
(* SpecBattery: calls on one Battery.                                      *)
(***************************************************************************)
MaxHistory == 3

BatteryCapacities == {1000, 200}
ConsumeEnergies == {-1, 0, 50, 300, 1200}
ConsumeLabels == { [purpose |-> "unknown", task_id |-> None],
                   [purpose |-> "computation", task_id |-> Some(1)] }
SocArguments == {-1, 0, 25 * SocScale, 100 * SocScale, 100 * SocScale + 1}

Called(op, arg, label, before, r) ==
    [status |-> "called", op |-> op, arg |-> arg, label |-> label,
     raised |-> r.raised, before |-> before, b |-> r.b]

BatteryInit ==
    /\ \E c \in BatteryCapacities, s \in {100 * SocScale, 50 * SocScale, 0} :
          bat = Called("init", s, None, Battery(c, s),
                       [raised |-> FALSE, b |-> Battery(c, s)])
    /\ pol = Idle /\ run = Idle /\ run2 = Idle
    /\ tsk = Idle /\ link = Idle /\ stn = Idle

Consume ==
    /\ Len(bat.b.consumption_history) < MaxHistory
    /\ \E e \in ConsumeEnergies, l \in ConsumeLabels :
          bat' = Called("consume", e, l, bat.b,
                        consume_energy_wh(bat.b, e, l.purpose, l.task_id))
    /\ UNCHANGED <<pol, run, run2, tsk, link, stn>>

SetSoc ==
    /\ \E v \in SocArguments :
          bat' = Called("set_soc", v, None, bat.b, set_soc(bat.b, v))
    /\ UNCHANGED <<pol, run, run2, tsk, link, stn>>

Reset ==
    /\ \E v \in SocArguments :
          bat' = Called("reset", v, None, bat.b, reset(bat.b, v))
    /\ UNCHANGED <<pol, run, run2, tsk, link, stn>>

BatteryNext == Consume \/ SetSoc \/ Reset

SpecBattery == BatteryInit /\ [][BatteryNext]_vars

(***************************************************************************)
(* SpecStation: the station test, tasks handed to one station.             *)
(***************************************************************************)
HeadKind(st, kind) ==
    st.status = "running" /\ st.queue # <<>> /\ Head(st.queue).kind = kind

HeadPc(st, pc) ==
    HeadKind(st, "timeout") /\ st.frames[Head(st.queue).k].pc = pc

StationCapacities == {1, 2}
StationDemands == {1000, 4000}
StationDelays == {0, 1000, 5000}

StationInit ==
    /\ \E c \in StationCapacities, n \in 1..MaxTasks :
       \E demands \in [1..n -> StationDemands], delays \in [1..n -> StationDelays] :
          run = StationTest(c,
                            [k \in 1..n |-> Task(k, "GENERIC", 1024, demands[k], 0, None)],
                            delays)
    /\ pol = Idle /\ bat = Idle /\ run2 = Idle
    /\ tsk = Idle /\ link = Idle /\ stn = Idle

ProcessTask ==
    /\ HeadKind(run, "process_task")
    /\ run' \in Step(run)
    /\ UNCHANGED <<pol, bat, run2, tsk, link, stn>>

RequestGranted ==
    /\ HeadKind(run, "granted")
    /\ run' \in Step(run)
    /\ UNCHANGED <<pol, bat, run2, tsk, link, stn>>

ServiceDone ==
    /\ HeadPc(run, "service")
    /\ run' \in Step(run)
    /\ UNCHANGED <<pol, bat, run2, tsk, link, stn>>

SlotReleased ==
    /\ HeadKind(run, "release")
    /\ run' \in Step(run)
    /\ UNCHANGED <<pol, bat, run2, tsk, link, stn>>

NoEventLeft ==
    /\ run.status = "running" /\ run.queue = <<>>
    /\ run' \in Step(run)
    /\ UNCHANGED <<pol, bat, run2, tsk, link, stn>>

StationNext ==
    \/ ProcessTask
    \/ RequestGranted
    \/ ServiceDone
    \/ SlotReleased
    \/ NoEventLeft

SpecStation == StationInit /\ [][StationNext]_vars

(***************************************************************************)
(* SpecRunner: one run of the Runner, in either driver mode.               *)
(***************************************************************************)
RunnerInit ==
    /\ \/ \E s \in InitialSocs : run = Runner("arrival", s, 0, <<>>)
       \/ \E s \in InitialSocs, n \in 0..MaxTasks : run = Runner("fixed", s, n, <<>>)
    /\ pol = Idle /\ bat = Idle /\ run2 = Idle
    /\ tsk = Idle /\ link = Idle /\ stn = Idle

RunFixed ==
    /\ run.status = "constructed" /\ run.mode = "fixed"
    /\ run' = run_start(run)
    /\ UNCHANGED <<pol, bat, run2, tsk, link, stn>>

RunWithArrivalProcess ==
    /\ run.status = "constructed" /\ run.mode = "arrival"
    /\ run' = run_with_arrival_process_start(run)
    /\ UNCHANGED <<pol, bat, run2, tsk, link, stn>>

SimulationProcess ==
    /\ HeadKind(run, "init_driver") /\ run.mode = "fixed"
    /\ run' \in Step(run)
    /\ UNCHANGED <<pol, bat, run2, tsk, link, stn>>

ArrivalProcess ==
    /\ run.mode = "arrival"
    /\ HeadKind(run, "init_driver") \/ HeadKind(run, "wake_driver")
    /\ run' \in Step(run)
    /\ UNCHANGED <<pol, bat, run2, tsk, link, stn>>

ProcessSingleTask ==
    /\ HeadKind(run, "init_task")
    /\ run' \in Step(run)
    /\ UNCHANGED <<pol, bat, run2, tsk, link, stn>>

UploadDone ==
    /\ HeadPc(run, "uplink")
    /\ run' \in Step(run)
    /\ UNCHANGED <<pol, bat, run2, tsk, link, stn>>

DownloadDone ==
    /\ HeadPc(run, "downlink")
    /\ run' \in Step(run)
    /\ UNCHANGED <<pol, bat, run2, tsk, link, stn>>

TimeBoundReached ==
    /\ HeadKind(run, "until")
    /\ run' \in Step(run)
    /\ UNCHANGED <<pol, bat, run2, tsk, link, stn>>

RunnerNext ==
    \/ RunFixed
    \/ RunWithArrivalProcess
    \/ SimulationProcess
    \/ ArrivalProcess
    \/ ProcessSingleTask
    \/ UploadDone
    \/ RequestGranted
    \/ ServiceDone
    \/ SlotReleased
    \/ DownloadDone
    \/ TimeBoundReached
    \/ NoEventLeft

SpecRunner == RunnerInit /\ [][RunnerNext]_vars

(***************************************************************************)
(* SpecFixedRun: Runner.run() alone, the generator's stream fixed by its    *)
(* seed at construction.  env.run() of line 138 steps the environment as   *)
(* long as an event is scheduled, so a step that can be taken is taken.    *)
(***************************************************************************)
FixedInit ==
    /\ \E s \in InitialSocs, n \in 0..MaxTasks :
       \E stream \in [1..n -> TaskDraws("fixed")] : run = Runner("fixed", s, n, stream)
    /\ pol = Idle /\ bat = Idle /\ run2 = Idle
    /\ tsk = Idle /\ link = Idle /\ stn = Idle

FixedNext ==
    \/ RunFixed
    \/ SimulationProcess
    \/ UploadDone
    \/ RequestGranted
    \/ ServiceDone
    \/ SlotReleased
    \/ DownloadDone
    \/ NoEventLeft

SpecFixedRun == FixedInit /\ [][FixedNext]_vars /\ WF_vars(FixedNext)

(***************************************************************************)
(* SpecArrivalRun: a run of the arrival-process driver whose seeded stream  *)
(* holds GENERIC tasks of different sizes, one second apart.                *)
(***************************************************************************)
ArrivalSizes == {25000, 250000}
ArrivalSocs == {1000, 150}

ArrivalDraws ==
    [ type : {"GENERIC"}, size_bytes : ArrivalSizes, compute_demand : {4000},
      deadline_ms : {None}, affinity : BOOLEAN, inter_arrival : {1000} ]

ArrivalInit ==
    /\ \E s \in ArrivalSocs :
       \E stream \in [1..MaxTasks -> ArrivalDraws] : run = Runner("arrival", s, 0, stream)
    /\ pol = Idle /\ bat = Idle /\ run2 = Idle
    /\ tsk = Idle /\ link = Idle /\ stn = Idle

ArrivalNext ==
    \/ RunWithArrivalProcess
    \/ ArrivalProcess
    \/ ProcessSingleTask
    \/ UploadDone
    \/ RequestGranted
    \/ ServiceDone
    \/ SlotReleased
    \/ DownloadDone
    \/ TimeBoundReached

SpecArrivalRun == ArrivalInit /\ [][ArrivalNext]_vars

(***************************************************************************)
(* SpecDispatch: a Dispatcher called directly.  Each call is               *)
(* env.process(dispatcher.dispatch(task, now_soc)) followed by env.run(),  *)
(* with a soc the caller chooses.                                          *)
(***************************************************************************)
MaxDispatches == 2
DispatchSocs == {-1, 0, 150, 1000, 1001}

DispatchTasks(id) ==
    { Task(id, "NAV", 250000, 4000, 0, None) }
    \cup { set_edge_affinity(Task(id, "GENERIC", 250000, 4000, 0, Some(4000)), a).task :
            a \in BOOLEAN }

DispatchInit ==
    /\ run = Runner("dispatch", 1000, 0, <<>>)
    /\ pol = Idle /\ bat = Idle /\ run2 = Idle
    /\ tsk = Idle /\ link = Idle /\ stn = Idle

\* dispatch(task, now_soc) from its start to its first yield.  pol keeps
\* the soc given and the state the call started from.
DispatchCalled ==
    /\ run.mode = "dispatch" /\ run.status \in {"constructed", "ended"}
    /\ Len(run.frames) < MaxDispatches
    /\ \E task \in DispatchTasks(Len(run.frames) + 1), soc \in DispatchSocs :
          LET before == [ run EXCEPT !.status = "running",
                                     !.frames = Append(@, Frame(task)) ]
          IN /\ run' = dispatch_begin(before, Len(before.frames), soc)
             /\ pol' = [status |-> "dispatched", soc |-> soc, before |-> before]
    /\ UNCHANGED <<bat, run2, tsk, link, stn>>

DispatchNext ==
    \/ DispatchCalled
    \/ UploadDone
    \/ RequestGranted
    \/ ServiceDone
    \/ SlotReleased
    \/ DownloadDone
    \/ NoEventLeft

SpecDispatch == DispatchInit /\ [][DispatchNext]_vars

(***************************************************************************)
(* SpecTask: one Task, constructed and then called.                        *)
(***************************************************************************)
TaskSizes == {1024, 250000}
TaskDeadlines == {None, Some(500), Some(4000)}
ExpiryTimes == {0, 1000, 5000}

TaskCalled(op, arg, before, r, result) ==
    [status |-> "called", op |-> op, arg |-> arg, raised |-> r.raised,
     before |-> before, task |-> r.task, result |-> result]

TaskInit ==
    /\ \E type \in TaskTypes, size \in TaskSizes, deadline \in TaskDeadlines :
          LET t == Task(1, type, size, 1000, 0, deadline) IN
          tsk = TaskCalled("init", None, t, [raised |-> FALSE, task |-> t], None)
    /\ pol = Idle /\ bat = Idle /\ run = Idle /\ run2 = Idle
    /\ link = Idle /\ stn = Idle

SetEdgeAffinity ==
    /\ \E affinity \in BOOLEAN :
          tsk' = TaskCalled("set_edge_affinity", affinity, tsk.task,
                            set_edge_affinity(tsk.task, affinity), None)
    /\ UNCHANGED <<pol, bat, run, run2, link, stn>>

IsExpired ==
    /\ \E t \in ExpiryTimes :
          tsk' = TaskCalled("is_expired", t, tsk.task,
                            [raised |-> FALSE, task |-> tsk.task],
                            is_expired(tsk.task, t))
    /\ UNCHANGED <<pol, bat, run, run2, link, stn>>

TaskNext == SetEdgeAffinity \/ IsExpired

SpecTask == TaskInit /\ [][TaskNext]_vars

(***************************************************************************)
(* SpecNetwork: one Network, constructed and then asked for transfer       *)
(* times.                                                                  *)
(***************************************************************************)
UplinkBandwidths == {1, 20}
DownlinkBandwidths == {1, 50}
RoundTripTimes == {0, 20, 120}
Jitters == {0, 5}
ByteCounts == {-1, 0, 1024, 250000}

NetworkCalled(op, arg, n, r) ==
    [status |-> "called", op |-> op, arg |-> arg, net |-> n,
     raised |-> r.raised, result |-> r]

NetworkInit ==
    /\ \E up \in UplinkBandwidths, down \in DownlinkBandwidths,
          rtt \in RoundTripTimes, jitter \in Jitters :
          link = NetworkCalled("init", None, Network(up, down, rtt, jitter),
                               [raised |-> FALSE])
    /\ pol = Idle /\ bat = Idle /\ run = Idle /\ run2 = Idle
    /\ tsk = Idle /\ stn = Idle

UplinkTime ==
    /\ \E b \in ByteCounts :
          link' = NetworkCalled("uplink_time", b, link.net, uplink_time(link.net, b))
    /\ UNCHANGED <<pol, bat, run, run2, tsk, stn>>

DownlinkTime ==
    /\ \E b \in ByteCounts :
          link' = NetworkCalled("downlink_time", b, link.net, downlink_time(link.net, b))
    /\ UNCHANGED <<pol, bat, run, run2, tsk, stn>>

NetworkNext == UplinkTime \/ DownlinkTime

SpecNetwork == NetworkInit /\ [][NetworkNext]_vars

(***************************************************************************)
(* SpecStationConstruction: a ResourceStation is constructed from          *)
(* arguments of any sign and, if there is one, tasks are handed to it.     *)
(***************************************************************************)
ConstructionRates == {-1000, 0, 1000, 2000}
ConstructionCapacities == {-1, 0, 1, 2}
ConstructionDelays == {0, 1000}

ConstructionInit ==
    /\ \E rate \in ConstructionRates, capacity \in ConstructionCapacities,
          n \in 1..MaxTasks :
       \E demands \in [1..n -> StationDemands], delays \in [1..n -> ConstructionDelays] :
          LET c == ResourceStation_init("LOCAL", rate, capacity) IN
          /\ stn = [status |-> "called", service_rate |-> rate,
                    capacity |-> capacity, raised |-> c.raised,
                    station |-> c.station]
          /\ run = ConstructedStationTest(
                       rate, capacity,
                       [k \in 1..n |-> Task(k, "GENERIC", 1024, demands[k], 0, None)],
                       delays)
    /\ pol = Idle /\ bat = Idle /\ run2 = Idle /\ tsk = Idle /\ link = Idle

SpecStationConstruction == ConstructionInit /\ [][StationNext]_vars

(***************************************************************************)
(* SpecPair: two runs with the same seed, configuration and mode, side by  *)
(* side.  The seed fixes the values of the generator's stream.             *)
(***************************************************************************)
Finished(st) == st.status \in {"ended", "stopped", "raised"}

\* One step of a run: the call of the driver, then Environment.step.
Advance(st) ==
    IF st.status = "constructed"
    THEN IF st.mode = "fixed" THEN {run_start(st)}
         ELSE {run_with_arrival_process_start(st)}
    ELSE IF st.status = "running" THEN Step(st)
    ELSE {st}

\* The streams tried: what the seeds of the two runs may stand for.
SeededDraws(mode) ==
    { d \in TaskDraws(mode) : d.type # "SLAM" /\ d.deadline_ms # None }

PairInit ==
    /\ \E mode \in {"fixed", "arrival"}, s \in InitialSocs :
       \E stream \in [1..MaxTasks -> SeededDraws(mode)] :
          run = Runner(mode, s, IF mode = "fixed" THEN MaxTasks ELSE 0, stream)
    /\ run2 = run
    /\ pol = Idle /\ bat = Idle /\ tsk = Idle /\ link = Idle /\ stn = Idle

BothAdvance ==
    /\ ~(Finished(run) /\ Finished(run2))
    /\ run' \in Advance(run)
    /\ run2' \in Advance(run2)
    /\ UNCHANGED <<pol, bat, tsk, link, stn>>

PairNext == BothAdvance

SpecPair == PairInit /\ [][PairNext]_vars

(***************************************************************************)
(* vacsim/models/battery.py: the legacy BatteryModel.  The soc is a        *)
(* fraction of the capacity, counted in 1/LegacySocScale; energies are in  *)
(* joules, CPU cycles and bits in units of 10^9.                           *)
(***************************************************************************)
WH_TO_JOULE == 3600
LegacySocScale == 1000

\* BatteryModel.__init__ (valid arguments).
BatteryModel(capacity_Wh, init_soc, idle_power_W, move_power_W, compute_efficiency_J_per_cycle, net_tx_J_per_bit, net_rx_J_per_bit) ==
    [ capacity_Wh |-> capacity_Wh, capacity_J |-> capacity_Wh * WH_TO_JOULE,
      soc |-> init_soc, idle_power_W |-> idle_power_W,
      move_power_W |-> move_power_W,
      compute_efficiency_J_per_cycle |-> compute_efficiency_J_per_cycle,
      net_tx_J_per_bit |-> net_tx_J_per_bit, net_rx_J_per_bit |-> net_rx_J_per_bit,
      total_energy_used_J |-> 0, total_energy_used_Wh |-> 0, events |-> <<>> ]

\* BatteryModel._log_event: the event holds the energy drawn, the soc after
\* the draw and, when it differs, the energy asked for.
log_event(b, event_type, energy_J, energy_requested_J) ==
    [ b EXCEPT !.events =
        Append(@, [ type |-> event_type, energy_J |-> energy_J, soc_after |-> b.soc,
                    energy_requested_J |-> IF energy_requested_J # energy_J
                                           THEN Some(energy_requested_J) ELSE None ]) ]

\* A mutant: the energy asked for is drawn, whatever is available.
draw_energy_as_requested(b, energy_J) ==
    IF energy_J <= 0 THEN [b |-> b, actual_energy_J |-> 0]
    ELSE [ b |-> [ b EXCEPT
                   !.soc = @ - (energy_J * LegacySocScale) \div b.capacity_J,
                   !.total_energy_used_J = @ + energy_J,
                   !.total_energy_used_Wh = (b.total_energy_used_J + energy_J) \div WH_TO_JOULE ],
           actual_energy_J |-> energy_J ]

\* BatteryModel._draw_energy: the battery after the draw and the energy
\* actually drawn.
draw_energy(b, energy_J) ==
    IF energy_J <= 0 THEN [b |-> b, actual_energy_J |-> 0]
    ELSE LET available_energy_J == (b.soc * b.capacity_J) \div LegacySocScale IN
         IF energy_J > available_energy_J
         THEN [ b |-> [ b EXCEPT
                        !.soc = 0,
                        !.total_energy_used_J = @ + available_energy_J,
                        !.total_energy_used_Wh =
                            (b.total_energy_used_J + available_energy_J) \div WH_TO_JOULE ],
                actual_energy_J |-> available_energy_J ]
         ELSE [ b |-> [ b EXCEPT
                        !.soc = @ - (energy_J * LegacySocScale) \div b.capacity_J,
                        !.total_energy_used_J = @ + energy_J,
                        !.total_energy_used_Wh =
                            (b.total_energy_used_J + energy_J) \div WH_TO_JOULE ],
                actual_energy_J |-> energy_J ]

\* What a draw_* method does with the energy it has computed: the draw, the
\* event, the energy returned.
Drawn(b, event_type, energy_J) ==
    LET r == draw_energy(b, energy_J) IN
    [ raised |-> FALSE, requested |-> energy_J, result |-> r.actual_energy_J,
      b |-> log_event(r.b, event_type, r.actual_energy_J, energy_J) ]

\* A draw_* method that raised ValueError.
DrawRaised(b) == [raised |-> TRUE, requested |-> 0, result |-> 0, b |-> b]

\* BatteryModel.draw_idle
draw_idle(b, dt_s) ==
    IF dt_s < 0 THEN DrawRaised(b) ELSE Drawn(b, "idle", b.idle_power_W * dt_s)

\* BatteryModel.draw_move
draw_move(b, dt_s) ==
    IF dt_s < 0 THEN DrawRaised(b) ELSE Drawn(b, "move", b.move_power_W * dt_s)

\* BatteryModel.draw_compute
draw_compute(b, cycles) ==
    IF cycles < 0 THEN DrawRaised(b)
    ELSE Drawn(b, "compute", cycles * b.compute_efficiency_J_per_cycle)

\* BatteryModel.draw_txrx
draw_txrx(b, bits_tx, bits_rx) ==
    IF bits_tx < 0 THEN DrawRaised(b)
    ELSE IF bits_rx < 0 THEN DrawRaised(b)
    ELSE Drawn(b, "network", bits_tx * b.net_tx_J_per_bit + bits_rx * b.net_rx_J_per_bit)

(***************************************************************************)
(* SpecLegacyBattery: one BatteryModel and a sequence of draws.            *)
(***************************************************************************)
MaxEvents == 3
LegacyCapacities == {5, 10}
LegacyInitSocs == {1000, 100}
DrawDurations == {-1, 0, 100, 500}
DrawCycles == {-1, 0, 100}
DrawBits == {-1, 0, 10}

LegacyCalled(op, before, r) ==
    [ status |-> "called", op |-> op, raised |-> r.raised, requested |-> r.requested,
      result |-> r.result, before |-> before, b |-> r.b ]

LegacyInit ==
    /\ \E c \in LegacyCapacities, s \in LegacyInitSocs :
          LET b == BatteryModel(c, s, 18, 36, 36, 18, 36) IN
          bat = [ status |-> "new", op |-> "none", raised |-> FALSE, requested |-> 0,
                  result |-> 0, before |-> b, b |-> b ]
    /\ pol = Idle /\ run = Idle /\ run2 = Idle
    /\ tsk = Idle /\ link = Idle /\ stn = Idle

DrawIdle ==
    /\ Len(bat.b.events) < MaxEvents
    /\ \E dt_s \in DrawDurations : bat' = LegacyCalled("draw_idle", bat.b, draw_idle(bat.b, dt_s))
    /\ UNCHANGED <<pol, run, run2, tsk, link, stn>>

DrawMove ==
    /\ Len(bat.b.events) < MaxEvents
    /\ \E dt_s \in DrawDurations : bat' = LegacyCalled("draw_move", bat.b, draw_move(bat.b, dt_s))
    /\ UNCHANGED <<pol, run, run2, tsk, link, stn>>

DrawCompute ==
    /\ Len(bat.b.events) < MaxEvents
    /\ \E cycles \in DrawCycles :
          bat' = LegacyCalled("draw_compute", bat.b, draw_compute(bat.b, cycles))
    /\ UNCHANGED <<pol, run, run2, tsk, link, stn>>

DrawTxRx ==
    /\ Len(bat.b.events) < MaxEvents
    /\ \E bits_tx \in DrawBits, bits_rx \in DrawBits :
          bat' = LegacyCalled("draw_txrx", bat.b, draw_txrx(bat.b, bits_tx, bits_rx))
    /\ UNCHANGED <<pol, run, run2, tsk, link, stn>>

LegacyNext == DrawIdle \/ DrawMove \/ DrawCompute \/ DrawTxRx

SpecLegacyBattery == LegacyInit /\ [][LegacyNext]_vars

(***************************************************************************)
(* The policy: decide_site (SpecPolicy).                                   *)
(***************************************************************************)
InRange(soc) == 0 <= soc /\ soc <= 100 * SocScale

\* C7: for every task of type NAV or SLAM and every soc in [0, 100],
\* decide_site returns LOCAL, whatever the battery level and the
\* edge_affinity flag.
C7_special_tasks_always_local ==
    (pol.status = "called" /\ pol.task.type \in {"NAV", "SLAM"} /\ InRange(pol.soc))
    => pol.result = "LOCAL"

\* A SLAM task with the affinity flag set, at 15 %: LOCAL.
C7_witness ==
    /\ pol.status = "called" /\ pol.task.type = "SLAM" /\ pol.task.edge_affinity
    /\ pol.soc = 15 * SocScale /\ pol.result = "LOCAL"

\* C8: for every GENERIC task and every soc in [0, 30], 30.0 included,
\* decide_site returns CLOUD, whatever edge_affinity is.
C8_generic_low_battery_cloud ==
    (pol.status = "called" /\ pol.task.type = "GENERIC"
     /\ 0 <= pol.soc /\ pol.soc <= 30 * SocScale)
    => pol.result = "CLOUD"

\* A GENERIC task with edge affinity at exactly 30.0 %: CLOUD.
C8_witness ==
    /\ pol.status = "called" /\ pol.task.type = "GENERIC" /\ pol.task.edge_affinity
    /\ pol.soc = 30 * SocScale /\ pol.result = "CLOUD"

\* C9: for every GENERIC task and every soc in (30, 100], decide_site
\* returns EDGE when edge_affinity is true and LOCAL when it is false.
C9_generic_high_battery_by_affinity ==
    (pol.status = "called" /\ pol.task.type = "GENERIC"
     /\ 30 * SocScale < pol.soc /\ pol.soc <= 100 * SocScale)
    => pol.result = IF pol.task.edge_affinity THEN "EDGE" ELSE "LOCAL"

\* A GENERIC task with edge affinity just above 30 %: EDGE.
C9_witness ==
    /\ pol.status = "called" /\ pol.task.type = "GENERIC" /\ pol.task.edge_affinity
    /\ pol.soc = 30 * SocScale + 1 /\ pol.result = "EDGE"

\* C10: decide_site called with a soc outside [0, 100] raises for every
\* task type, NAV and SLAM included, and returns no site.
C10_soc_out_of_range_raises ==
    (pol.status = "called" /\ ~InRange(pol.soc))
    => pol.result = ValueError /\ pol.result \notin Sites

\* A NAV task just above 100 %: the call raises.
C10_witness ==
    /\ pol.status = "called" /\ pol.task.type = "NAV"
    /\ pol.soc = 100 * SocScale + 1 /\ pol.result = ValueError

FinishByRule(s, i) ==
    Max(s.calls[i].arrival_time,
        IF i = 1 THEN 0 ELSE s.processing_history[i - 1].finish_time)
    + s.calls[i].service_time

RECURSIVE SumServiceTimes(_, _)
SumServiceTimes(calls, i) ==
    IF i = 0 THEN 0 ELSE SumServiceTimes(calls, i - 1) + calls[i].service_time

\* C2: on a station of capacity 1, with the tasks numbered in the order in
\* which they call process, finish_time[i] = max(arrival_time[i],
\* finish_time[i-1]) + service_time[i]; N tasks submitted at time 0 complete
\* at the prefix sums of their service times, and completion times are
\* non-decreasing in submission order.
C2_capacity_one_finish_times ==
    \A site \in Sites :
      LET s == run.stations[site]
          h == s.processing_history
      IN s.capacity = 1 =>
         \A i \in 1..Len(h) :
            /\ h[i].task_id = s.calls[i].task_id
            /\ h[i].finish_time = FinishByRule(s, i)
            /\ i > 1 => h[i - 1].finish_time <= h[i].finish_time
            /\ (\A j \in 1..i : s.calls[j].arrival_time = 0)
               => h[i].finish_time = SumServiceTimes(s.calls, i)

\* Three tasks of different service times handed to a station of capacity 1
\* at time 0, all served: the last one waited for the two before it.
C2_witness ==
    LET s == run.stations["LOCAL"] IN
    /\ run.mode = "station" /\ s.capacity = 1
    /\ Len(s.processing_history) = 3
    /\ \A j \in 1..3 : s.calls[j].arrival_time = 0
    /\ s.calls[1].service_time # s.calls[2].service_time
    /\ s.processing_history[3].finish_time = SumServiceTimes(s.calls, 3)
    /\ s.processing_history[3].queue_wait_time > 0

(***************************************************************************)
(* The runner (SpecRunner, SpecPair).                                      *)
(***************************************************************************)
Records == run.execution_records

Dispatched(st, k) == k <= Len(st.frames) /\ st.frames[k].pc # "new"

\* The site the policy gives task k for the soc its dispatch read.
DecidedSite(st, k) == decide_site(st.frames[k].task, st.frames[k].soc_before)

C4_every_dispatched_task_completes ==
    run.status \in {"ended", "stopped"}
    => \A k \in 1..Len(run.frames) :
          Dispatched(run, k)
          => Cardinality({i \in 1..Len(Records) : Records[i].task_id = k}) = 1

RECURSIVE SumEnergyDelta(_)
SumEnergyDelta(records) ==
    IF records = <<>> THEN 0
    ELSE Head(records).energy_wh_delta + SumEnergyDelta(Tail(records))

InitialEnergy(st) == Battery(battery_capacity_wh, st.initial_soc).current_energy_wh

\* C5: in arrival-process mode, at every moment, the remaining energy is
\* max(0, initial energy - the sum of energy_wh_delta of the tasks completed
\* so far): no debit of concurrently in-flight tasks is lost.
C5_debits_serialized ==
    run.mode = "arrival"
    => run.battery.current_energy_wh
       = Max(0, InitialEnergy(run) - SumEnergyDelta(Records))

\* Two tasks that were in flight together have both been debited, and the
\* second debit was for more than what was left.
C5_witness ==
    /\ run.mode = "arrival" /\ Len(Records) = 2
    /\ Records[2].dispatch_time < run.frames[Records[1].task_id].consumed_at
    /\ Records[1].energy_wh_delta > 0 /\ Records[2].energy_wh_delta > 0
    /\ SumEnergyDelta(Records) > InitialEnergy(run)
    /\ run.battery.current_energy_wh = 0

C11_no_dispatch_when_depleted ==
    /\ [](/\ \A i \in 1..Len(Records) : Records[i].soc_before > DepletionSoc
          /\ \A k \in 1..Len(run.frames) :
                Dispatched(run, k) => run.frames[k].soc_before > DepletionSoc)
    /\ [][\A k \in 1..Len(run'.frames) :
             (~Dispatched(run, k) /\ Dispatched(run', k))
             => get_soc(run'.battery) > DepletionSoc]_vars

\* A fixed-count run of three tasks whose first task took the battery to
\* 0.1 %: the run is over, the other two tasks were never dispatched.
C11_witness ==
    /\ run.mode = "fixed" /\ run.status = "ended" /\ run.num_tasks = 3
    /\ get_soc(run.battery) = DepletionSoc
    /\ Len(Records) = 1 /\ Records[1].soc_before > DepletionSoc
    /\ ~Dispatched(run, 2) /\ ~Dispatched(run, 3)

\* The place of task k in the completions of station s, 0 if not completed.
CompletionRank(s, k) ==
    IF \E n \in 1..Len(s.processing_history) : s.processing_history[n].task_id = k
    THEN CHOOSE n \in 1..Len(s.processing_history) :
            s.processing_history[n].task_id = k
    ELSE 0

\* C12: within one ResourceStation, whatever its capacity, completions are
\* in arrival order: if task A called process before task B, A completes
\* before B.
C12_completions_in_arrival_order ==
    \A site \in Sites :
      LET s == run.stations[site] IN
      \A i, j \in 1..Len(s.calls) :
         (i < j /\ CompletionRank(s, s.calls[j].task_id) > 0)
         => /\ CompletionRank(s, s.calls[i].task_id) > 0
            /\ CompletionRank(s, s.calls[i].task_id)
               < CompletionRank(s, s.calls[j].task_id)

\* Task k has been admitted to service: it is past the wait for its request.
Started(st, k) == st.frames[k].pc \notin {"new", "uplink", "wait_req"}

InService(st, site) ==
    { k \in 1..Len(st.frames) :
        st.frames[k].execution_site = site /\ st.frames[k].pc = "service" }

\* C13: at every point of simulated time a ResourceStation has at most
\* `capacity` tasks in active service, and waiting tasks are admitted to
\* service in the order in which they arrived.
C13_capacity_bound_and_fifo_admission ==
    \A site \in Sites :
      LET s == run.stations[site] IN
      /\ Cardinality(InService(run, site)) <= s.capacity
      /\ Len(s.users) <= s.capacity
      /\ \A i, j \in 1..Len(s.calls) :
            (i < j /\ Started(run, s.calls[j].task_id))
            => /\ Started(run, s.calls[i].task_id)
               /\ run.frames[s.calls[i].task_id].svc_start
                  <= run.frames[s.calls[j].task_id].svc_start

\* Capacity 2, three tasks handed in at time 0: the third waited and was
\* admitted, after the second had left, while the first is still served.
C13_witness ==
    /\ run.mode = "station" /\ run.stations["LOCAL"].capacity = 2
    /\ Len(run.frames) = 3
    /\ \A k \in 1..3 : run.frames[k].arrival_time = 0 /\ Started(run, k)
    /\ InService(run, "LOCAL") = {1, 3}
    /\ run.frames[3].svc_start > 0

FrameOf(r) == run.frames[r.task_id]

\* C15: for every task executed at LOCAL, energy_wh_delta is the active local
\* power times the station's service time, the wait in the local queue
\* excluded, and network_up_ms and network_down_ms are exactly 0.
C15_local_energy_of_service_time ==
    \A i \in 1..Len(Records) :
       Records[i].execution_site = "local"
       => /\ Records[i].energy_wh_delta
             = (power_params.active_local_mw
                * calculate_service_time(run.stations["LOCAL"], FrameOf(Records[i]).task))
               \div EnergyUnit
          /\ Records[i].network_up_ms = 0
          /\ Records[i].network_down_ms = 0

\* A LOCAL task that waited in the local queue before its service: its
\* latency is above its service time, its energy that of the service alone.
C15_witness ==
    \E i \in 1..Len(Records) :
       /\ Records[i].execution_site = "local"
       /\ FrameOf(Records[i]).svc_start > FrameOf(Records[i]).arrival_time
       /\ Records[i].latency_ms > Ms(FrameOf(Records[i]).service_time)
       /\ Records[i].energy_wh_delta > 0
       /\ Records[i].network_up_ms = 0 /\ Records[i].network_down_ms = 0

\* C16: for every task executed at EDGE or CLOUD, energy_wh_delta is
\* tx_power * uplink.total + rx_power * downlink.total and nothing else: it
\* depends neither on the remote service time nor on the remote queue wait,
\* and is strictly positive.
C16_remote_energy_of_communication ==
    \A i \in 1..Len(Records) :
       Records[i].execution_site \in {"edge", "cloud"}
       => LET f == FrameOf(Records[i])
              net == networks[f.execution_site]
              up == uplink_time(net, f.task.size_bytes).total_time
              down == downlink_time(net, Max(1024, f.task.size_bytes \div 100)).total_time
          IN /\ Records[i].energy_wh_delta
                = (power_params.tx_mw * up + power_params.rx_mw * down) \div EnergyUnit
             /\ Records[i].energy_wh_delta > 0

\* Two EDGE tasks of the same size, one of which waited at the station:
\* the same energy.
C16_witness ==
    \E i, j \in 1..Len(Records) :
       /\ Records[i].execution_site = "edge" /\ Records[j].execution_site = "edge"
       /\ Records[i].queue_wait_ms = 0 /\ Records[j].queue_wait_ms > 0
       /\ Records[i].energy_wh_delta = Records[j].energy_wh_delta
       /\ Records[j].energy_wh_delta > 0

\* An amount of energy as a difference of soc.
SocOfEnergy(energy_wh) == (energy_wh * 100 * SocScale) \div battery_capacity_wh

\* C17: every ExecutionRecord has energy_wh_delta >= 0 and
\* soc_after <= soc_before.
C17_record_energy_non_negative_soc_not_rising ==
    \A i \in 1..Len(Records) :
       /\ Records[i].energy_wh_delta >= 0
       /\ Records[i].soc_after <= Records[i].soc_before

\* A record whose soc fell by more than its own debit: another task was
\* debited between its dispatch and its completion.
C17_witness ==
    \E i \in 1..Len(Records) :
       /\ Records[i].energy_wh_delta > 0
       /\ Records[i].soc_after > 0
       /\ Records[i].soc_before - Records[i].soc_after
          > SocOfEnergy(Records[i].energy_wh_delta)

\* C18: in any run, in either driver mode, the soc_after values of the
\* ExecutionRecords, in the order in which the records are emitted, never
\* rise.
C18_soc_after_non_increasing ==
    \A i \in 1..Len(Records) :
       i > 1 => Records[i].soc_after <= Records[i - 1].soc_after

\* Three records of an arrival-process run; the second task to complete was
\* dispatched before the first one completed.
C18_witness ==
    /\ run.mode = "arrival" /\ Len(Records) = 3
    /\ Records[2].dispatch_time < FrameOf(Records[1]).consumed_at
    /\ Records[1].soc_after > Records[2].soc_after
    /\ Records[2].soc_after > Records[3].soc_after

\* C19: missed_deadline is true exactly when the task has a deadline and its
\* latency_ms is strictly above it; the flag changes nothing else: the task
\* has run to its end on the site decided at dispatch.
C19_missed_deadline_flag ==
    \A i \in 1..Len(Records) :
       LET task == FrameOf(Records[i]).task IN
       /\ Records[i].missed_deadline
          = (task.deadline_ms # None /\ Records[i].latency_ms > task.deadline_ms[1])
       /\ Records[i].missed_deadline
          => /\ FrameOf(Records[i]).pc = "done"
             /\ Records[i].execution_site
                = SiteName[FrameOf(Records[i]).execution_site]
             /\ FrameOf(Records[i]).execution_site
                = DecidedSite(run, Records[i].task_id)
             /\ Records[i].compute_time_ms >= Ms(FrameOf(Records[i]).service_time)

\* One task whose latency equals its deadline (no miss), one past its
\* deadline (a miss), one past that value without a deadline (no miss).
C19_witness ==
    \E i, j, k \in 1..Len(Records) :
       /\ Records[i].deadline_ms = Records[i].latency_ms
       /\ ~Records[i].missed_deadline
       /\ Records[j].deadline_ms > 0
       /\ Records[j].latency_ms > Records[j].deadline_ms
       /\ Records[j].missed_deadline
       /\ Records[k].deadline_ms = -1
       /\ Records[k].latency_ms > Records[j].deadline_ms
       /\ ~Records[k].missed_deadline

\* C20: a task's logic is not interleaved with another task's between two
\* suspension points: the step that debits a task also reads its soc_after
\* and emits its record, so soc_after = max(0, soc just before the debit
\* - 100 * energy_wh_delta / capacity_wh), which is the soc of the battery
\* when the record is emitted, and no step emits two records.
C20_debit_and_record_in_one_step ==
    [][/\ Len(Records') <= Len(Records) + 1
       /\ Len(Records') = Len(Records) + 1
          => LET r == Records'[Len(Records')] IN
             /\ SubSeq(Records', 1, Len(Records)) = Records
             /\ r.soc_after
                = Max(0, get_soc(run.battery) - SocOfEnergy(r.energy_wh_delta))
             /\ r.soc_after = get_soc(run'.battery)
             /\ run'.battery.current_energy_wh
                = Max(0, run.battery.current_energy_wh - r.energy_wh_delta)]_vars

\* A record has just been emitted for a task during whose flight another
\* task was debited, while a third task is still in flight.
C20_witness ==
    /\ Len(Records) = 2
    /\ Records[2].soc_after = get_soc(run.battery)
    /\ Records[2].soc_before - Records[2].soc_after
       = SocOfEnergy(Records[1].energy_wh_delta)
         + SocOfEnergy(Records[2].energy_wh_delta)
    /\ Records[2].dispatch_time < FrameOf(Records[1]).consumed_at
    /\ \E k \in 1..Len(run.frames) :
          Dispatched(run, k) /\ run.frames[k].pc # "done"

\* When a fixed-count run is over, the ExecutionRecords are those of the
\* first m tasks of the stream, in order, every one dispatched at a soc above
\* 0.1; the others were not dispatched, and m < N only with the soc at or
\* below 0.1.
RecordsOfDispatchedPrefix ==
    LET m == Len(Records) IN
    /\ Len(run.frames) = run.num_tasks /\ m <= run.num_tasks
    /\ \A i \in 1..m : /\ Records[i].task_id = run.frames[i].task.id
                        /\ Records[i].soc_before > DepletionSoc
    /\ \A k \in 1..run.num_tasks : Dispatched(run, k) <=> k <= m
    /\ m < run.num_tasks => get_soc(run.battery) <= DepletionSoc

\* C21: a fixed-count run over N tasks terminates with one ExecutionRecord
\* per dispatched task in task-stream order: N records when the soc is
\* above 0.1 before every dispatch, otherwise the records of the tasks
\* dispatched before the soc was first found at or below 0.1.
C21_fixed_run_terminates_with_prefix_records ==
    <>[](run.status = "ended" /\ RecordsOfDispatchedPrefix)

\* A run of three tasks over after two: the first went to CLOUD, the second
\* (a NAV task) took the battery to zero and the third was not dispatched.
C21_witness ==
    /\ run.mode = "fixed" /\ run.status = "ended" /\ run.num_tasks = 3
    /\ Len(Records) = 2 /\ Records[1].task_id = 1 /\ Records[2].task_id = 2
    /\ Records[1].soc_after > DepletionSoc /\ Records[2].soc_after <= DepletionSoc
    /\ ~Dispatched(run, 3)

\* The sum of energy_wh over the entries of a history.
RECURSIVE SumEnergyWh(_)
SumEnergyWh(h) ==
    IF h = <<>> THEN 0 ELSE h[Len(h)].energy_wh + SumEnergyWh(SubSeq(h, 1, Len(h) - 1))

C23_negative_consume_raises_unchanged ==
    (bat.op = "consume" /\ bat.arg < 0)
    => /\ bat.raised
       /\ get_soc(bat.b) = get_soc(bat.before)
       /\ get_total_consumed_wh(bat.b) = get_total_consumed_wh(bat.before)
       /\ get_consumption_history(bat.b) = get_consumption_history(bat.before)
       /\ bat.b = bat.before

\* A negative request on a battery that has already served two requests.
C23_witness ==
    /\ bat.op = "consume" /\ bat.arg = -1 /\ bat.raised
    /\ Len(get_consumption_history(bat.before)) = 2
    /\ get_total_consumed_wh(bat.before) > 0
    /\ bat.b = bat.before

\* C24: every successful consume call, one with energy_wh = 0 included,
\* appends exactly one history entry carrying the given energy_wh, purpose
\* and task_id; the earlier entries stay as they were and in their order,
\* and no call but a successful reset changes or removes an entry.
C24_one_history_entry_per_consume ==
    LET h == get_consumption_history(bat.b)
        h0 == get_consumption_history(bat.before)
    IN /\ (bat.op = "consume" /\ ~bat.raised)
          => /\ Len(h) = Len(h0) + 1
             /\ SubSeq(h, 1, Len(h0)) = h0
             /\ h[Len(h)] = [energy_wh |-> bat.arg, purpose |-> bat.label.purpose,
                             task_id |-> bat.label.task_id]
       /\ ~(bat.op = "consume" /\ ~bat.raised) /\ ~(bat.op = "reset" /\ ~bat.raised)
          => h = h0

\* A request of zero energy for task 1 after a request with the default
\* labels: the second entry carries 0, "computation" and the task id.
C24_witness ==
    /\ bat.op = "consume" /\ bat.arg = 0 /\ ~bat.raised
    /\ bat.label = [purpose |-> "computation", task_id |-> Some(1)]
    /\ Len(get_consumption_history(bat.before)) = 1
    /\ get_consumption_history(bat.before)[1].purpose = "unknown"
    /\ Len(get_consumption_history(bat.b)) = 2
    /\ get_consumption_history(bat.b)[2].energy_wh = 0

\* C25: set_soc(v) and reset(v) with v outside [0, 100] raise and leave the
\* soc, the history and the total consumed as they were.
C25_soc_argument_out_of_range_unchanged ==
    (bat.op \in {"set_soc", "reset"} /\ ~InRange(bat.arg))
    => /\ bat.raised
       /\ get_soc(bat.b) = get_soc(bat.before)
       /\ get_consumption_history(bat.b) = get_consumption_history(bat.before)
       /\ get_total_consumed_wh(bat.b) = get_total_consumed_wh(bat.before)

\* reset(100.1) on a battery with two history entries: it raises and the
\* entries and the total are still there.
C25_witness ==
    /\ bat.op = "reset" /\ bat.arg = 100 * SocScale + 1 /\ bat.raised
    /\ Len(get_consumption_history(bat.b)) = 2
    /\ get_total_consumed_wh(bat.b) > 0
    /\ bat.b = bat.before

\* C30: reset(v) with v in [0, 100] leaves the battery in the state of a
\* newly constructed battery of the same capacity with initial soc v,
\* whatever happened before: soc = v, remaining energy = capacity * v / 100,
\* empty history and total consumed 0.
C30_reset_gives_new_battery ==
    (bat.op = "reset" /\ InRange(bat.arg))
    => /\ ~bat.raised
       /\ bat.b = Battery(bat.before.capacity_wh, bat.arg)
       /\ get_soc(bat.b) = bat.arg
       /\ get_remaining_energy_wh(bat.b)
            = (bat.before.capacity_wh * bat.arg) \div (100 * SocScale)
       /\ get_consumption_history(bat.b) = <<>>
       /\ get_total_consumed_wh(bat.b) = 0

\* reset(25) on a battery drained to zero by three requests.
C30_witness ==
    /\ bat.op = "reset" /\ bat.arg = 25 * SocScale /\ ~bat.raised
    /\ Len(get_consumption_history(bat.before)) = 3
    /\ get_remaining_energy_wh(bat.before) = 0
    /\ get_total_consumed_wh(bat.before) > bat.before.capacity_wh
    /\ bat.b = Battery(bat.before.capacity_wh, 25 * SocScale)

\* C26: a NAV or SLAM task always has can_offload = false and
\* edge_affinity = false: construction gives both, set_edge_affinity on such
\* a task raises and leaves the task as it was, and no sequence of calls
\* makes either flag true.
C26_special_task_flags_stay_false ==
    /\ is_special(tsk.task) => (~tsk.task.can_offload /\ ~tsk.task.edge_affinity)
    /\ (tsk.op = "set_edge_affinity" /\ is_special(tsk.before))
         => (tsk.raised /\ tsk.task = tsk.before)

\* set_edge_affinity(True) on a SLAM task.
C26_witness ==
    /\ tsk.op = "set_edge_affinity" /\ tsk.arg = TRUE
    /\ tsk.before.type = "SLAM" /\ tsk.raised
    /\ ~tsk.task.can_offload /\ ~tsk.task.edge_affinity

\* C27: the time a transfer takes is that of the link's parameters and the
\* byte count alone: a task sent to EDGE or CLOUD reaches the station
\* uplink_time(size).total_time after its dispatch and is completed
\* downlink_time(result size).total_time after the station finished it,
\* whatever other transfers are in flight on the same link.
C27_transfers_do_not_delay_one_another ==
    \A k \in 1..Len(run.frames) :
       LET f == run.frames[k] IN
       (Dispatched(run, k) /\ f.execution_site \in {"EDGE", "CLOUD"})
       => /\ f.up_total
               = uplink_time(networks[f.execution_site], f.task.size_bytes).total_time
          /\ f.pc # "uplink" => f.arrival_time = f.start_time + f.up_total
          /\ f.pc = "done"
               => /\ f.down_total
                       = downlink_time(networks[f.execution_site],
                                       result_size(f.task)).total_time
                  /\ f.consumed_at = f.finish_time + f.down_total

\* Task 2 was dispatched to EDGE while task 1 was still being uploaded on
\* the same link, and reached the station one upload time after its own
\* dispatch.
C27_witness ==
    /\ Len(run.frames) >= 2
    /\ run.frames[1].execution_site = "EDGE" /\ run.frames[2].execution_site = "EDGE"
    /\ run.frames[1].pc \notin {"new", "uplink"} /\ run.frames[2].pc \notin {"new", "uplink"}
    /\ run.frames[2].start_time > run.frames[1].start_time
    /\ run.frames[2].start_time < run.frames[1].arrival_time
    /\ run.frames[2].arrival_time
         = run.frames[2].start_time
           + uplink_time(networks["EDGE"], run.frames[2].task.size_bytes).total_time

\* The time b bytes take at bandwidth_mbps, and the overhead of a link, in
\* 1/TimeScale s.
PureTime(b, bandwidth_mbps) == (b * 8 * TimeScale) \div (bandwidth_mbps * 1000000)

Overhead(n) == (n.rtt_ms * TimeScale) \div 2000 + (n.jitter_ms * TimeScale) \div 1000

C29_station_construction_checked ==
    /\ stn.raised <=> (stn.service_rate <= 0 \/ stn.capacity < 1)
    /\ stn.raised => (stn.station = None /\ run.frames = <<>>)
    /\ ~stn.raised
         => /\ run.stations["LOCAL"].service_rate = stn.service_rate
            /\ run.stations["LOCAL"].capacity = stn.capacity
            /\ run.status # "raised"

\* A station of rate 2000 and capacity 2 has served the three tasks handed
\* to it, and the run is over.
C29_witness ==
    /\ ~stn.raised /\ stn.service_rate = 2000 /\ stn.capacity = 2
    /\ run.status = "ended"
    /\ Len(run.stations["LOCAL"].processing_history) = 3
    /\ \A k \in 1..3 : run.frames[k].pc = "done"

\* The station a record's task was served at.
StationOf(r) == run.stations[FrameOf(r).execution_site]

\* C31: in every ExecutionRecord, of a LOCAL task as of an EDGE or CLOUD
\* task, queue_wait_ms is the time between the task's arrival at its station
\* and the start of its service, compute_time_ms is the station's service
\* time compute_demand / service_rate, and latency_ms is the sum of
\* network_up_ms, queue_wait_ms, compute_time_ms and network_down_ms.
C31_record_timing_breakdown ==
    \A i \in 1..Len(Records) :
       LET r == Records[i]
           f == FrameOf(r)
       IN /\ r.queue_wait_ms = Ms(f.svc_start - f.arrival_time)
          /\ r.compute_time_ms = Ms(calculate_service_time(StationOf(r), f.task))
          /\ r.latency_ms = r.network_up_ms + r.queue_wait_ms
                           + r.compute_time_ms + r.network_down_ms

\* The places of a dispatch, in the order it passes them.
PcRank == [ new |-> 0, uplink |-> 1, wait_req |-> 2, service |-> 3, downlink |-> 4, done |-> 5 ]

\* The battery history entries made for task k.
Debits(st, k) ==
    { n \in 1..Len(st.battery.consumption_history) :
        st.battery.consumption_history[n].purpose[2] = st.frames[k].task.id }

\* The events and the station requests task k still waits for.
PendingWaits(st, k) ==
    { n \in 1..Len(st.queue) : st.queue[n].kind # "until" /\ st.queue[n].k = k }

\* C32: every dispatched task goes once from the decision through its
\* execution to the debit and the end: the battery is debited exactly once
\* per task, when all of the task's waits are over and never at dispatch, a
\* dispatch never goes back to an earlier place, and the site decided at
\* dispatch is never decided again.
C32_one_pass_one_debit_after_waits ==
    [][ \A k \in 1..Len(run'.frames) :
          LET f == run'.frames[k] IN
          /\ Cardinality(Debits(run', k)) = IF f.pc = "done" THEN 1 ELSE 0
          /\ f.pc = "done"
             => /\ PendingWaits(run', k) = {}
                /\ f.consumed_at
                   = f.start_time + f.up_total + (f.finish_time - f.arrival_time)
                     + f.down_total
          /\ k <= Len(run.frames)
             => /\ PcRank[f.pc] >= PcRank[run.frames[k].pc]
                /\ run.frames[k].pc # "new"
                   => /\ f.execution_site = run.frames[k].execution_site
                      /\ f.soc_before = run.frames[k].soc_before
                      /\ f.start_time = run.frames[k].start_time
                /\ run.frames[k].pc = "done" => f = run.frames[k]
      ]_vars

\* A remote task that is done: debited once, after its upload, its service
\* and its download, while a later task is still under way and undebited.
C32_witness ==
    \E k, j \in 1..Len(run.frames) :
       /\ run.frames[k].pc = "done" /\ run.frames[k].execution_site = "EDGE"
       /\ run.frames[k].consumed_at > run.frames[k].start_time
       /\ Cardinality(Debits(run, k)) = 1
       /\ run.frames[j].pc \in {"uplink", "wait_req", "service", "downlink"}
       /\ Debits(run, j) = {}

\* C33: the battery history entry made for a dispatched task has the purpose
\* "task_<id>_<site>", of the task's id and the lower-case name of the site
\* decided for it, and a task_id field equal to the task's id.
C33_history_entry_names_task ==
    \A k \in 1..Len(run.frames) :
       \A n \in Debits(run, k) :
          LET e == run.battery.consumption_history[n]
              f == run.frames[k]
          IN /\ e.purpose = <<"task", f.task.id, SiteName[f.execution_site]>>
             /\ e.task_id = Some(f.task.id)

\* The remote frames of a run.
Remote(st) == { k \in 1..Len(st.frames) : st.frames[k].pc # "new" /\ st.frames[k].execution_site \in {"EDGE", "CLOUD"} }

\* Whether task k has called process() of a station.
Joined(st, k) ==
    \E s \in Sites : \E n \in 1..Len(st.stations[s].calls) :
       st.stations[s].calls[n].task_id = st.frames[k].task.id

\* C34: a task executed at EDGE or CLOUD joins the station's queue only when
\* its uplink delay has elapsed, and its downlink starts only when its
\* service has finished; the station therefore serves in the order of the
\* ends of the uploads, whatever the order of the dispatches.
C34_remote_queue_by_upload_completion ==
    /\ \A k \in Remote(run) :
          LET f == run.frames[k] IN
          /\ f.pc = "uplink" => ~Joined(run, k) /\ run.now <= f.start_time + f.up_total
          /\ f.pc # "uplink"
             => /\ Joined(run, k)
                /\ f.arrival_time = f.start_time + f.up_total
          /\ f.pc \in {"uplink", "wait_req", "service"} => f.down_total = 0
          /\ f.pc = "downlink"
             => \E n \in PendingWaits(run, k) :
                   run.queue[n].time = f.finish_time + f.down_total
          /\ f.pc = "done" => f.consumed_at = f.finish_time + f.down_total
    /\ \A i, j \in Remote(run) :
          /\ run.frames[i].execution_site = run.frames[j].execution_site
          /\ Started(run, i) /\ Started(run, j)
          /\ run.frames[i].arrival_time < run.frames[j].arrival_time
          => run.frames[i].svc_start < run.frames[j].svc_start

\* Two tasks of one remote station: the one dispatched later, smaller, ends
\* its upload first and is served first; the other one waits for the slot.
C34_witness ==
    \E i, j \in Remote(run) :
       /\ run.frames[i].execution_site = run.frames[j].execution_site
       /\ run.frames[i].start_time < run.frames[j].start_time
       /\ Started(run, i) /\ Started(run, j)
       /\ run.frames[j].arrival_time < run.frames[i].arrival_time
       /\ run.frames[j].svc_start < run.frames[i].svc_start
       /\ run.frames[i].svc_start > run.frames[i].arrival_time

\* C35: a dispatch given a soc outside [0, 100] raises the error of the
\* policy before anything has changed: no station slot is requested, the
\* clock has not moved, the battery is not debited, no record is kept and
\* the counters are those of before; a dispatch given a soc of the range
\* never raises.
C35_dispatch_out_of_range_soc_changes_nothing ==
    pol.status = "dispatched"
    => /\ ~InRange(pol.soc)
          => /\ run.status = "raised"
             /\ run.stations = pol.before.stations
             /\ run.now = pol.before.now /\ run.queue = pol.before.queue
             /\ run.battery = pol.before.battery
             /\ run.execution_records = pol.before.execution_records
             /\ run.total_dispatched = pol.before.total_dispatched
             /\ run.site_counts = pol.before.site_counts
             /\ run.frames = pol.before.frames
       /\ InRange(pol.soc) => run.status # "raised"

\* A second dispatch, given a soc out of the range, after a first one that
\* ran to its end: it raised, and the record, the debit, the counter and the
\* clock are those the first one left.
C35_witness ==
    /\ pol.status = "dispatched" /\ ~InRange(pol.soc)
    /\ run.status = "raised"
    /\ Len(run.frames) = 2 /\ run.frames[2].pc = "new"
    /\ Len(run.execution_records) = 1 /\ run.total_dispatched = 1
    /\ Len(run.battery.consumption_history) = 1
    /\ run.now > 0

\* The tasks of a run that are dispatched and not yet completed.
InFlight(st) == { k \in 1..Len(st.frames) : st.frames[k].pc \notin {"new", "done"} }

\* C36: in fixed-count mode at most one task is in flight at any time, a task
\* being dispatched only when the records of all tasks before it are kept;
\* so no station ever holds more than one task, in service or waiting, and
\* queue_wait_ms is 0 in every record.
C36_fixed_count_one_task_in_flight ==
    run.mode = "fixed"
    => /\ Cardinality(InFlight(run)) <= 1
       /\ \A k \in 1..Len(run.frames) :
             run.frames[k].pc # "new"
             => /\ Len(Records) >= k - 1
                /\ \A j \in 1..(k - 1) : run.frames[j].pc = "done"
       /\ \A s \in Sites :
             /\ Len(run.stations[s].users) + Len(run.stations[s].put_queue) <= 1
             /\ \A n \in 1..Len(run.stations[s].processing_history) :
                   run.stations[s].processing_history[n].queue_wait_time = 0
       /\ \A i \in 1..Len(Records) : Records[i].queue_wait_ms = 0

\* A fixed-count run with MaxTasks records, a LOCAL, an EDGE and a CLOUD one
\* among them: each station has served, none has made a task wait.
C36_witness ==
    /\ run.mode = "fixed" /\ Len(Records) = MaxTasks
    /\ \A s \in Sites : \E i \in 1..Len(Records) :
          /\ Records[i].execution_site = SiteName[s]
          /\ Records[i].queue_wait_ms = 0
          /\ Records[i].latency_ms > 0

\* C37: in fixed-count mode the soc_before of the first record is the initial
\* soc, the soc_before of every later record is the soc_after of the record
\* before it, and in every record
\* soc_after = max(0, soc_before - 100 * energy_wh_delta / capacity_wh).
C37_fixed_count_soc_chain ==
    run.mode = "fixed"
    => /\ Records # <<>> => Records[1].soc_before = run.initial_soc
       /\ \A i \in 2..Len(Records) : Records[i].soc_before = Records[i - 1].soc_after
       /\ \A i \in 1..Len(Records) :
             Records[i].soc_after
             = Max(0, Records[i].soc_before - SocOfEnergy(Records[i].energy_wh_delta))

\* A fixed-count run of three records: each starts from the soc the one
\* before left, below the initial soc, and the last debit asks for more than
\* is left and ends at 0.
C37_witness ==
    /\ run.mode = "fixed" /\ Len(Records) = 3
    /\ Records[1].soc_before = run.initial_soc
    /\ Records[2].soc_before < run.initial_soc
    /\ Records[3].soc_before < Records[2].soc_before
    /\ Records[3].soc_before > 0
    /\ SocOfEnergy(Records[3].energy_wh_delta) > Records[3].soc_before
    /\ Records[3].soc_after = 0

\* C38: in every ExecutionRecord finish_time is the simulated time at which
\* the task was completed, that is dispatch_time + latency_ms / 1000.
C38_finish_time_is_completion_time ==
    \A i \in 1..Len(Records) :
       /\ Records[i].finish_time = FrameOf(Records[i]).consumed_at
       /\ Records[i].finish_time
          = Records[i].dispatch_time + (Records[i].latency_ms * TimeScale) \div 1000

\* The energy a legacy battery holds, in joules.
LegacyAvailable(b) == (b.soc * b.capacity_J) \div LegacySocScale

RECURSIVE SumEventEnergy(_)
SumEventEnergy(events) ==
    IF events = <<>> THEN 0
    ELSE events[1].energy_J + SumEventEnergy(Tail(events))

\* C39: in the legacy BatteryModel, after any sequence of draw_idle,
\* draw_move, draw_compute and draw_txrx calls the soc is in [0, 1]; a draw
\* that asks for more than the available energy draws exactly the available
\* energy and leaves the soc at 0; and the total energy used is the sum of
\* the energies actually drawn, as the logged events hold them.
C39_legacy_battery_draws ==
    /\ 0 <= bat.b.soc /\ bat.b.soc <= LegacySocScale
    /\ bat.b.total_energy_used_J = SumEventEnergy(bat.b.events)
    /\ (bat.status = "called" /\ ~bat.raised)
       => /\ bat.requested > LegacyAvailable(bat.before)
             => /\ bat.result = LegacyAvailable(bat.before)
                /\ bat.b.soc = 0
                /\ bat.b.events[Len(bat.b.events)].energy_J = LegacyAvailable(bat.before)
          /\ bat.b.total_energy_used_J = bat.before.total_energy_used_J + bat.result

\* A battery that had energy left after two draws and was then asked for
\* more than it held: the draw took what was left, the soc is 0 and the
\* total is the capacity's share the battery started with.
C39_witness ==
    /\ bat.status = "called" /\ ~bat.raised
    /\ Len(bat.b.events) = 3
    /\ bat.b.events[1].energy_J > 0 /\ bat.b.events[2].energy_J > 0
    /\ LegacyAvailable(bat.before) > 0
    /\ bat.requested > LegacyAvailable(bat.before)
    /\ bat.result = LegacyAvailable(bat.before)
    /\ bat.b.soc = 0
    /\ bat.b.total_energy_used_J = bat.b.capacity_J

==========================================================================
